---- MODULE Spec2Model ----
(***************************************************************************)
(* Model of the synchronisation engine of obsidian-ai-tools:               *)
(* generateEmbeddings (src/src/generate-embeddings.ts) run by a single     *)
(* invoker against the vault (the corpus), the "document" and              *)
(* "document_section" tables of the store and the embedding provider.      *)
(* Every awaited store or provider call is one action; it either succeeds  *)
(* or returns an error.                                                    *)
(***************************************************************************)
EXTENDS Integers, Sequences, FiniteSets, TLC

(***************************************************************************)
(* Bounds of the model.                                                    *)
(***************************************************************************)
\* number of sync passes that may be started
MaxPasses == 3
\* number of faults over a behaviour: calls that fail, passes that are abandoned
MaxFailures == 1

(***************************************************************************)
(* Text: a string is a tuple of one-character strings.                     *)
(***************************************************************************)
NL == "\n"

Str1 == <<"a", NL, NL, "b">>
Str2 == <<"b", NL>>

\* the bodies a vault file can have
Contents == {Str1, Str2}

\* marker of a file that is not in the vault / of a row that is not stored
Absent == <<"absent">>
NULL == <<"null">>

PathA == <<"p", "/", "x">>
PathB == <<"q", "/", "y">>
\* the order in which the vault lists its markdown files
VaultOrder == <<PathA, PathB>>
Paths == {VaultOrder[n] : n \in 1..Len(VaultOrder)}

\* the vaults of the model: the note p/x is edited, the note q/y comes and goes,
\* and the vault can be emptied
Vaults ==
    {v \in [Paths -> Contents \cup {Absent}] :
        /\ v[PathB] \in {Str2, Absent}
        /\ v[PathA] = Absent => v[PathB] = Absent}

DirP == <<"p">>
DirQ == <<"q">>
\* the settings (excludeDirs, publicDirs) the user can choose
ExcludeChoices == {{}, {DirQ}}
PublicChoices == {{}, {DirP}}

(***************************************************************************)
(* Pure functions of generate-embeddings.ts                                *)
(***************************************************************************)
IsWs(c) == c \in {" ", NL, "\r", "\t"}

StartsWith(s, prefix) ==
    /\ Len(prefix) <= Len(s)
    /\ SubSeq(s, 1, Len(prefix)) = prefix

\* path.normalize: runs of "/" collapse to one "/"
RECURSIVE Normalize(_)
Normalize(p) ==
    IF Len(p) < 2 THEN p
    ELSE IF p[1] = "/" /\ p[2] = "/" THEN Normalize(Tail(p))
    ELSE <<p[1]>> \o Normalize(Tail(p))

\* startsWith on the paths as they are written
isFileInDirectoriesRaw(filePath, directories) ==
    \E directory \in directories : StartsWith(filePath, directory)

isFileInDirectories(filePath, directories) ==
    \E directory \in directories :
        StartsWith(Normalize(filePath), Normalize(directory))

\* String.prototype.trim
RECURSIVE TrimLeft(_)
TrimLeft(s) == IF s # <<>> /\ IsWs(Head(s)) THEN TrimLeft(Tail(s)) ELSE s

RECURSIVE TrimRight(_)
TrimRight(s) ==
    IF s # <<>> /\ IsWs(s[Len(s)]) THEN TrimRight(SubSeq(s, 1, Len(s) - 1)) ELSE s

Trim(s) == TrimRight(TrimLeft(s))

\* A match of /\r?\n\s*\r?\n/ that starts at position s ends at the last "\n"
\* of the run of whitespace that follows its first "\n" (\s* is greedy);
\* 0 when there is no match at s.
FirstNL(text, s) ==
    IF s <= Len(text) /\ text[s] = NL THEN s
    ELSE IF s + 1 <= Len(text) /\ text[s] = "\r" /\ text[s + 1] = NL THEN s + 1
    ELSE 0

MatchEnd(text, s) ==
    LET f == FirstNL(text, s)
        ends == IF f = 0 THEN {}
                ELSE {e \in (f + 1)..Len(text) :
                        /\ text[e] = NL
                        /\ \A m \in (f + 1)..e : IsWs(text[m])}
    IN  IF ends = {} THEN 0 ELSE CHOOSE e \in ends : \A e2 \in ends : e2 <= e

\* text.split(/\r?\n\s*\r?\n/)
RECURSIVE SplitBlank(_)
SplitBlank(text) ==
    LET starts == {s \in 1..Len(text) : MatchEnd(text, s) # 0}
    IN  IF starts = {} THEN <<text>>
        ELSE LET s == CHOOSE x \in starts : \A y \in starts : x <= y
                 e == MatchEnd(text, s)
             IN  <<SubSeq(text, 1, s - 1)>> \o SplitBlank(SubSeq(text, e + 1, Len(text)))

splitIntoParagraphs(text) ==
    LET paragraphs == SplitBlank(text)
    IN  [n \in 1..Len(paragraphs) |-> Trim(paragraphs[n])]

\* parseYaml (obsidian): throws on malformed YAML; an unclosed "[" is malformed
YamlThrows(frontmatterString) ==
    \E n \in 1..Len(frontmatterString) : frontmatterString[n] = "["

\* length of the "---\r?\n" that opens markdown, 0 when markdown does not open so
FenceAt(text, s) ==
    IF StartsWith(SubSeq(text, s, Len(text)), <<"-", "-", "-", NL>>) THEN 4
    ELSE IF StartsWith(SubSeq(text, s, Len(text)), <<"-", "-", "-", "\r", NL>>) THEN 5
    ELSE 0

\* length of the "\r?\n---\r?\n" found at position s, 0 when there is none
CloseAt(text, s) ==
    IF s <= Len(text) /\ text[s] = NL /\ FenceAt(text, s + 1) # 0
        THEN 1 + FenceAt(text, s + 1)
    ELSE IF s + 1 <= Len(text) /\ text[s] = "\r" /\ text[s + 1] = NL
            /\ FenceAt(text, s + 2) # 0
        THEN 2 + FenceAt(text, s + 2)
    ELSE 0

\* markdown.match(/^---\r?\n([\s\S]*?)\r?\n---\r?\n/): [found, group, len]
FrontmatterMatch(markdown) ==
    LET h == FenceAt(markdown, 1)
        closes == IF h = 0 THEN {}
                  ELSE {s \in (h + 1)..Len(markdown) : CloseAt(markdown, s) # 0}
    IN  IF closes = {} THEN [found |-> FALSE, group |-> <<>>, len |-> 0]
        ELSE LET s == CHOOSE x \in closes : \A y \in closes : x <= y
             IN  [found |-> TRUE,
                  group |-> SubSeq(markdown, h + 1, s - 1),
                  len |-> s - 1 + CloseAt(markdown, s)]

\* the front matter is taken for parsed whatever parseYaml does
parseMarkdownUnchecked(markdown) ==
    LET match == FrontmatterMatch(markdown)
    IN  IF match.found /\ match.group # <<>>
        THEN [content |-> SubSeq(markdown, match.len + 1, Len(markdown)),
              frontmatter |-> match.group]
        ELSE [content |-> markdown, frontmatter |-> <<>>]

\* the frontmatter object is represented by the YAML text it was parsed from;
\* <<>> is the empty object {}
parseMarkdown(markdown) ==
    LET match == FrontmatterMatch(markdown)
    IN  IF match.found /\ match.group # <<>> /\ ~YamlThrows(match.group)
        THEN [content |-> SubSeq(markdown, match.len + 1, Len(markdown)),
              frontmatter |-> match.group]
        ELSE [content |-> markdown, frontmatter |-> <<>>]

\* createHash("sha256").update(markdown).digest("base64"): distinct texts have
\* distinct digests
Checksum(markdown) == <<"sha256">> \o markdown

(***************************************************************************)
(* State                                                                   *)
(***************************************************************************)
VARIABLES
    vault,              \* the corpus: path -> body, or Absent
    excludeDirs,        \* setting
    publicDirs,         \* setting
    document,           \* table "document": rows [id, path, checksum, public, meta]
    document_section,   \* table "document_section", rows in insertion order
    nextId,             \* next serial id of table "document"
    pc,                 \* position of generateEmbeddings
    files,              \* the scan result
    idx,                \* index in files of the file being processed
    existingDocument,   \* result of the lookup
    markdown,           \* result of cachedRead
    doc,                \* row returned by the upsert (the code's `document`)
    sections,           \* paragraphs of the file being reindexed
    k,                  \* index in sections of the section being processed
    embeddingResult,    \* the counts
    existingDocuments,  \* rows listed for the dangling cleanup
    j,                  \* index in existingDocuments
    passes,             \* number of passes started
    nfail,              \* number of calls that failed
    log,                \* calls issued for the file being processed (history)
    hist                \* facts about this pass and the one before (history)

\* one query, from one of the entry points, against the store and the providers
VARIABLES
    entry,              \* the entry point the query came in by
    qpc,                \* position of the query's handler
    query,              \* the text of the query
    moderation,         \* what createModeration said of it
    requests,           \* provider and store calls issued for the query (history)
    documentSections,   \* the rows match_document_sections returned, as ranked
    hydrated,           \* number of them that have their document attached
    tokenCount,         \* generativeSearch: tokens counted so far
    contextText,        \* generativeSearch: the context sections of the prompt
    reply,              \* what the caller of the entry point gets
    options,            \* the retrieval options as configured: a value, or Unset
    matchResponse,      \* what match_document_sections returned: error, data
    choices             \* responseJson.choices of the chat completion

VARIABLES
    config,             \* the plugin's settings and clients, the functions' environment
    suspended           \* a second pass: its locals while the first one runs

\* the search modal and the page it lives in
VARIABLES
    modal,              \* the modal's class, its instances and their fields
    dom,                \* the keydown listeners of the document, the answer element
    pending             \* the asks that await their generated answer

indexerVars == <<vault, excludeDirs, publicDirs, document, document_section, nextId, pc,
                 files, idx, existingDocument, markdown, doc, sections, k,
                 embeddingResult, existingDocuments, j, passes, nfail, log, hist>>

queryVars == <<entry, qpc, query, moderation, requests, documentSections, hydrated,
               tokenCount, contextText, reply, options, matchResponse, choices>>

uiVars == <<modal, dom, pending>>

otherVars == <<config, suspended, uiVars>>

vars == <<indexerVars, queryVars, otherVars>>

corpusVars == <<vault, excludeDirs, publicDirs>>
storeVars == <<document, document_section, nextId>>
fileVars == <<existingDocument, markdown, doc, sections, k>>
cleanupVars == <<existingDocuments, j>>

NoRow == [id |-> 0, path |-> <<>>, checksum |-> NULL, public |-> FALSE, meta |-> <<>>]

\* positions at which generateEmbeddings is inside its per-document loop
FilePcs == {"lookup", "read", "updateAccess", "deleteSections", "upsert",
            "embed", "insert", "setChecksum"}
CleanupPcs == {"list", "deleteDangling"}
RunningPcs == FilePcs \cup CleanupPcs

file == files[idx]

\* rows of document_section that belong to document id
SectionsOf(id) == SelectSeq(document_section, LAMBDA r : r.document_id = id)
ContentsOf(id) == [n \in 1..Len(SectionsOf(id)) |-> SectionsOf(id)[n].content]

\* Sections(markdown): what a reindex of markdown stores, in source order
Paragraphs(md) == splitIntoParagraphs(parseMarkdown(md).content)

\* the vault's markdown files, in the vault's order
RECURSIVE Listed(_, _)
Listed(order, v) ==
    IF order = <<>> THEN <<>>
    ELSE IF v[Head(order)] = Absent THEN Listed(Tail(order), v)
    ELSE <<Head(order)>> \o Listed(Tail(order), v)

getMarkdownFiles == Listed(VaultOrder, vault)

\* the scan ignores excludeDirs
ScanAll(excl) == getMarkdownFiles

\* .filter((file) => !isFileInDirectories(file.path, excludeDirs))
Filter(fileList, excl) ==
    SelectSeq(fileList, LAMBDA p : ~isFileInDirectories(p, excl))

\* lines 22-25: the non-excluded markdown files
Scan(excl) == Filter(getMarkdownFiles, excl)

Scanned == {files[n] : n \in 1..Len(files)}

\* a call of this pass: its operation, the index of the file and of the section
\* it is for (0 when it is for none), and whether it succeeded
Call(op, ok) == [op |-> op, idx |-> IF op \in {"list", "deleteDangling"} THEN 0 ELSE idx,
                 k |-> IF op \in {"embed", "insert"} THEN k ELSE 0, ok |-> ok]

HistInit ==
    [prevClean |-> FALSE,   \* the pass before this one returned errorCount = 0 and
                            \* neither vault nor settings were edited since
     prevAborted |-> FALSE, \* the pass before this one was aborted
     lastClean |-> FALSE,   \* the same two facts about the last pass, kept
     lastAborted |-> FALSE, \* while no pass is running
     changed |-> {},        \* files that were stored, when this pass started,
                            \* with the checksum of another body than they have
     start |-> {},          \* the rows of document when this pass started
     lastInsertFailed |-> {},  \* files a section insert of the last pass failed for
     prevInsertFailed |-> {}]  \* the same of the pass before this one

\* what the caller gets: a thrown error, the sections found, a notice shown
\* to the user, the generated answer
NoReply == [error |-> "", sections |-> <<>>, notice |-> "", answer |-> ""]

\* Deno.env.get of a variable that is not set
Unset == -1

NoOptions == [matchThreshold |-> Unset, matchCount |-> Unset, minContentLength |-> Unset]

NoResponse == [error |-> FALSE, data |-> <<>>]

\* no query is being handled
QueryIdle ==
    /\ entry = ""
    /\ qpc = "idle"
    /\ query = <<>>
    /\ moderation = ""
    /\ requests = <<>>
    /\ documentSections = <<>>
    /\ hydrated = 0
    /\ tokenCount = 0
    /\ contextText = <<>>
    /\ reply = NoReply
    /\ options = NoOptions
    /\ matchResponse = NoResponse
    /\ choices = <<>>

\* the three secrets are set as they were loaded, and both clients are built
Configured ==
    [supabaseUrl |-> "key", supabaseKey |-> "key", openaiKey |-> "key",
     supabaseClient |-> "client", openai |-> "client",
     indexOnOpen |-> FALSE, onLayoutReady |-> FALSE, edited |-> FALSE, modal |-> "closed",
     env |-> [SUPABASE_URL |-> "key", SUPABASE_ANON_KEY |-> "key", OPENAI_KEY |-> "key"]]

\* no second pass
NoPass == [pc |-> "none"]

\* the modals a user opens, and the shift+Enter presses, in one run
MaxOpens == 2
MaxAsks == 2

\* new Typed("#answer", ...): n is the key press it answers, inst the modal
\* instance that holds it, el the modal instance whose answer element it types in
NoTyped == [n |-> 0, inst |-> 0, text |-> <<>>, el |-> 0]

NoModal ==
    [class |-> "", instance |-> 0, isOpen |-> FALSE, mode |-> "search", chat |-> FALSE,
     typedInstance |-> [i \in 1..MaxOpens |-> NoTyped], asks |-> 0, messages |-> 0,
     raced |-> FALSE]

NoDom == [keydown |-> <<>>, live |-> {}, answer |-> <<>>]

\* no modal has been opened
ModalIdle ==
    /\ modal = NoModal
    /\ dom = NoDom
    /\ pending = {}

\* the plugin is configured, and one pass runs at a time
OtherIdle ==
    /\ config = Configured
    /\ suspended = NoPass
    /\ ModalIdle

\* lines 31-36
Zero == [successCount |-> 0, updatedCount |-> 0, errorCount |-> 0, deleteCount |-> 0]

Init ==
    /\ vault \in Vaults
    /\ excludeDirs \in ExcludeChoices
    /\ publicDirs \in PublicChoices
    /\ document = {}
    /\ document_section = <<>>
    /\ nextId = 1
    /\ pc = "idle"
    /\ files = <<>>
    /\ idx = 0
    /\ existingDocument = NoRow
    /\ markdown = <<>>
    /\ doc = NoRow
    /\ sections = <<>>
    /\ k = 0
    /\ embeddingResult = Zero
    /\ existingDocuments = <<>>
    /\ j = 0
    /\ passes = 0
    /\ nfail = 0
    /\ log = <<>>
    /\ hist = HistInit
    /\ QueryIdle
    /\ OtherIdle

(***************************************************************************)
(* generateEmbeddings                                                      *)
(***************************************************************************)
Count(field) == [embeddingResult EXCEPT ![field] = @ + 1]

ResetFile ==
    /\ existingDocument' = NoRow
    /\ markdown' = <<>>
    /\ doc' = NoRow
    /\ sections' = <<>>
    /\ k' = 0

\* the for loop of line 38 moves to its next file, or ends
NextFile ==
    /\ idx' = idx + 1
    /\ pc' = IF idx < Len(files) THEN "lookup" ELSE "list"
    /\ ResetFile

\* a call returns an error (or rejects)
Fails ==
    /\ nfail < MaxFailures
    /\ nfail' = nfail + 1

\* the catch rethrows, as the older variants of the loop did
CatchRethrow ==
    /\ pc' = "thrown"
    /\ idx' = idx
    /\ ResetFile
    /\ UNCHANGED embeddingResult

\* the catch counts the file as errored and as successful
CatchCountedTwice ==
    /\ embeddingResult' = [embeddingResult EXCEPT !.errorCount = @ + 1,
                                                  !.successCount = @ + 1]
    /\ NextFile

\* lines 199-204: the catch at the document boundary
CatchDocument ==
    /\ embeddingResult' = Count("errorCount")
    /\ NextFile

\* call op of the per-document try block fails: control reaches the catch
Throw(op) ==
    /\ Fails
    /\ log' = Append(log, Call(op, FALSE))
    /\ CatchDocument
    /\ UNCHANGED hist

\* the catch around one section logs and goes on with the next section
CatchSectionSwallow ==
    /\ k' = k + 1
    /\ pc' = IF k < Len(sections) THEN "embed" ELSE "setChecksum"
    /\ UNCHANGED <<idx, existingDocument, markdown, doc, sections, embeddingResult>>

\* lines 172-183: the catch around one section rethrows to the document's catch
CatchSection == CatchDocument

ThrowInSection(op) ==
    /\ Fails
    /\ log' = Append(log, Call(op, FALSE))
    /\ CatchSection
    /\ UNCHANGED hist

\* lines 22-36
StartPass ==
    /\ pc \in {"idle", "returned"}
    /\ passes < MaxPasses
    /\ passes' = passes + 1
    /\ files' = Scan(excludeDirs)
    /\ embeddingResult' = Zero
    /\ idx' = 1
    /\ pc' = IF files' = <<>> THEN "list" ELSE "lookup"
    /\ log' = <<>>
    /\ document_section' = [n \in 1..Len(document_section) |->
                                [document_section[n] EXCEPT !.old = TRUE]]
    /\ hist' = [hist EXCEPT
                    !.prevClean = hist.lastClean, !.prevAborted = hist.lastAborted,
                    !.lastClean = FALSE, !.lastAborted = FALSE,
                    !.changed = {p \in Paths :
                                    /\ vault[p] # Absent
                                    /\ \E d \in document :
                                        /\ d.path = p
                                        /\ d.checksum # NULL
                                        /\ d.checksum # Checksum(vault[p])},
                    !.start = document,
                    !.prevInsertFailed = hist.lastInsertFailed,
                    !.lastInsertFailed = {}]
    /\ ResetFile
    /\ existingDocuments' = <<>>
    /\ j' = 0
    /\ UNCHANGED <<corpusVars, document, nextId, nfail>>
    /\ UNCHANGED <<queryVars, otherVars>>

\* lines 40-52: select ... filter("path", "eq", file.path).limit(1).maybeSingle()
Lookup ==
    /\ pc = "lookup"
    /\ \/ /\ existingDocument' \in
                IF \E d \in document : d.path = file
                THEN {d \in document : d.path = file} ELSE {NoRow}
          /\ pc' = "read"
          /\ log' = Append(log, Call("lookup", TRUE))
          /\ UNCHANGED <<idx, markdown, doc, sections, k, embeddingResult, nfail, hist>>
       \/ Throw("lookup")
    /\ UNCHANGED <<corpusVars, storeVars, files, cleanupVars, passes>>
    /\ UNCHANGED <<queryVars, otherVars>>

\* a stored file counts as indexed whatever its checksum
ClassifyByExistence(existing, checksum, isPublic) ==
    IF existing # NoRow
    THEN IF existing.public = isPublic THEN "Unchanged" ELSE "AccessChanged"
    ELSE "New"

\* a stored file whose checksum differs is reindexed without the section delete
ClassifyStaleAsNew(existing, checksum, isPublic) ==
    IF existing # NoRow /\ existing.checksum = checksum
    THEN IF existing.public = isPublic THEN "Unchanged" ELSE "AccessChanged"
    ELSE "New"

\* the access flag is compared before the checksum
ClassifyPublicFirst(existing, checksum, isPublic) ==
    IF existing # NoRow /\ existing.public # isPublic THEN "AccessChanged"
    ELSE IF existing # NoRow /\ existing.checksum = checksum THEN "Unchanged"
    ELSE IF existing # NoRow THEN "Stale" ELSE "New"

\* lines 63-89: which branch a file takes
Classify(existing, checksum, isPublic) ==
    IF existing # NoRow /\ existing.checksum = checksum
    THEN IF existing.public = isPublic THEN "Unchanged" ELSE "AccessChanged"
    ELSE IF existing # NoRow THEN "Stale" ELSE "New"

\* lines 55-104: cachedRead, the checksum, isPublic and the branch taken
ReadAndClassify ==
    /\ pc = "read"
    /\ \/ LET md == vault[file]
              checksum == Checksum(md)
              isPublic == isFileInDirectories(file, publicDirs)
              class == Classify(existingDocument, checksum, isPublic)
          IN  /\ log' = Append(log, Call("read", TRUE))
              /\ IF class = "Unchanged"
                 THEN /\ embeddingResult' = Count("successCount")
                      /\ NextFile
                 ELSE /\ pc' = CASE class = "AccessChanged" -> "updateAccess"
                                 [] class = "Stale" -> "deleteSections"
                                 [] class = "New" -> "upsert"
                      /\ markdown' = md
                      /\ UNCHANGED <<idx, existingDocument, embeddingResult,
                                     doc, sections, k>>
              /\ UNCHANGED <<nfail, hist>>
       \/ Throw("read")
    /\ UNCHANGED <<corpusVars, storeVars, files, cleanupVars, passes>>
    /\ UNCHANGED <<queryVars, otherVars>>

\* the update of the access flag also clears the checksum
AccessRowStale(row) ==
    [row EXCEPT !.public = isFileInDirectories(file, publicDirs), !.checksum = NULL]

\* line 75: a row after update({ public: isPublic })
AccessRow(row) == [row EXCEPT !.public = isFileInDirectories(file, publicDirs)]

\* lines 73-85: update({ public: isPublic }).filter("id", "eq", existingDocument.id)
UpdateAccess ==
    /\ pc = "updateAccess"
    /\ \/ /\ document' = {IF d.id = existingDocument.id THEN AccessRow(d) ELSE d :
                            d \in document}
          /\ log' = Append(log, Call("updateAccess", TRUE))
          /\ embeddingResult' = [embeddingResult EXCEPT !.successCount = @ + 1,
                                                        !.updatedCount = @ + 1]
          /\ NextFile
          /\ UNCHANGED <<nfail, hist>>
       \/ Throw("updateAccess") /\ UNCHANGED document
    /\ UNCHANGED <<corpusVars, document_section, nextId, files, cleanupVars, passes>>
    /\ UNCHANGED <<queryVars, otherVars>>

\* the delete removes nothing
RemoveSectionsNone(id) == document_section

\* lines 94-98: the table after delete().filter("document_id", "eq", id)
RemoveSections(id) ==
    SelectSeq(document_section, LAMBDA r : r.document_id # id)

\* lines 88-104
DeleteSections ==
    /\ pc = "deleteSections"
    /\ \/ /\ document_section' = RemoveSections(existingDocument.id)
          /\ log' = Append(log, Call("deleteSections", TRUE))
          /\ pc' = "upsert"
          /\ UNCHANGED <<idx, fileVars, embeddingResult, nfail, hist>>
       \/ Throw("deleteSections") /\ UNCHANGED document_section
    /\ UNCHANGED <<corpusVars, document, nextId, files, cleanupVars, passes>>
    /\ UNCHANGED <<queryVars, otherVars>>

\* lines 106-132: parseMarkdown, splitIntoParagraphs and
\* upsert({checksum: null, path, meta, public}, {onConflict: "path"})
UpsertRowKeepChecksum(row) ==
    [row EXCEPT !.meta = parseMarkdown(markdown).frontmatter,
                !.public = isFileInDirectories(file, publicDirs)]

UpsertRow(row) ==
    [row EXCEPT !.checksum = NULL,
                !.meta = parseMarkdown(markdown).frontmatter,
                !.public = isFileInDirectories(file, publicDirs)]

UpsertDocument ==
    /\ pc = "upsert"
    /\ \/ /\ IF \E d \in document : d.path = file
             THEN LET old == CHOOSE d \in document : d.path = file
                  IN  /\ document' = (document \ {old}) \cup {UpsertRow(old)}
                      /\ doc' = UpsertRow(old)
                      /\ UNCHANGED nextId
             ELSE LET new == UpsertRow([NoRow EXCEPT !.id = nextId, !.path = file])
                  IN  /\ document' = document \cup {new}
                      /\ doc' = new
                      /\ nextId' = nextId + 1
          /\ sections' = Paragraphs(markdown)
          /\ log' = Append(log, Call("upsert", TRUE))
          /\ k' = 1
          /\ pc' = IF sections' = <<>> THEN "setChecksum" ELSE "embed"
          /\ UNCHANGED <<idx, existingDocument, markdown, embeddingResult, nfail, hist>>
       \/ Throw("upsert") /\ UNCHANGED <<document, nextId>>
    /\ UNCHANGED <<corpusVars, document_section, files, cleanupVars, passes>>
    /\ UNCHANGED <<queryVars, otherVars>>

\* lines 139-151: openai.createEmbedding for section k
CreateEmbedding ==
    /\ pc = "embed"
    /\ \/ /\ pc' = "insert"
          /\ log' = Append(log, Call("embed", TRUE))
          /\ UNCHANGED <<idx, fileVars, embeddingResult, nfail, hist>>
       \/ ThrowInSection("embed")
    /\ UNCHANGED <<corpusVars, storeVars, files, cleanupVars, passes>>
    /\ UNCHANGED <<queryVars, otherVars>>

\* the section is inserted for the record the lookup returned
SectionRowOfLookup ==
    [document_id |-> existingDocument.id, content |-> sections[k],
     ver |-> markdown, old |-> FALSE]

\* lines 156-165: insert({ document_id: document.id, content: section, ... })
SectionRow ==
    [document_id |-> doc.id, content |-> sections[k], ver |-> markdown, old |-> FALSE]

\* lines 153-184: insert of section k, then the next section
InsertSection ==
    /\ pc = "insert"
    /\ \/ /\ document_section' = Append(document_section, SectionRow)
          /\ log' = Append(log, Call("insert", TRUE))
          /\ k' = k + 1
          /\ pc' = IF k < Len(sections) THEN "embed" ELSE "setChecksum"
          /\ UNCHANGED <<idx, existingDocument, markdown, doc, sections,
                         embeddingResult, nfail, hist>>
       \/ ThrowInSection("insert") /\ UNCHANGED document_section
    /\ UNCHANGED <<corpusVars, document, nextId, files, cleanupVars, passes>>
    /\ UNCHANGED <<queryVars, otherVars>>

\* the checksum written is that of the trimmed text
ChecksumRowTrimmed(row) == [row EXCEPT !.checksum = Checksum(Trim(markdown))]

\* lines 187-190: a row after update({ checksum })
ChecksumRow(row) == [row EXCEPT !.checksum = Checksum(markdown)]

\* lines 186-197: update({ checksum }).filter("id", "eq", document.id)
SetChecksum ==
    /\ pc = "setChecksum"
    /\ \/ /\ document' = {IF d.id = doc.id THEN ChecksumRow(d) ELSE d : d \in document}
          /\ log' = Append(log, Call("setChecksum", TRUE))
          /\ embeddingResult' = [embeddingResult EXCEPT !.successCount = @ + 1,
                                                        !.updatedCount = @ + 1]
          /\ NextFile
          /\ UNCHANGED <<nfail, hist>>
       \/ Throw("setChecksum") /\ UNCHANGED document
    /\ UNCHANGED <<corpusVars, document_section, nextId, files, cleanupVars, passes>>
    /\ UNCHANGED <<queryVars, otherVars>>

\* the orders in which a select without order can return the rows
Orders(rows) ==
    {o \in [1..Cardinality(rows) -> rows] :
        \A m, n \in 1..Cardinality(rows) : m # n => o[m] # o[n]}

\* the cleanup finds every listed row among the scanned files
NextDanglingNone(list, n) == 0

\* the cleanup takes every listed row for dangling
NextListed(list, n) == IF n <= Len(list) THEN n ELSE 0

\* lines 224-229: the next listed row, from position n on, whose path is not scanned
NextDangling(list, n) ==
    LET c == {m \in n..Len(list) : list[m].path \notin Scanned}
    IN  IF c = {} THEN 0 ELSE CHOOSE m \in c : \A m2 \in c : m <= m2

\* lines 207-222: select("id, path, checksum, public") of all documents
ListDocuments ==
    /\ pc = "list"
    /\ \/ /\ existingDocuments' \in Orders(document)
          /\ j' = NextDangling(existingDocuments', 1)
          /\ pc' = IF j' = 0 THEN "return" ELSE "deleteDangling"
          /\ log' = Append(log, Call("list", TRUE))
          /\ UNCHANGED <<embeddingResult, nfail>>
       \/ /\ Fails
          /\ log' = Append(log, Call("list", FALSE))
          /\ embeddingResult' = Count("errorCount")
          /\ pc' = "return"
          /\ UNCHANGED <<existingDocuments, j>>
    /\ UNCHANGED <<corpusVars, storeVars, files, idx, fileVars, passes, hist>>
    /\ UNCHANGED <<queryVars, otherVars>>

\* the sections of a deleted document stay in the store
CascadeNone(rows) == document_section

\* the store after rows have been deleted from document: a section belongs to
\* one document and has no life of its own, so that the store deletes it with
\* its document (the schema of the two tables is not in the sources)
Cascade(rows) ==
    SelectSeq(document_section, LAMBDA r : \E d \in rows : d.id = r.document_id)

\* a dangling delete that fails ends the cleanup
DeleteDanglingStop ==
    /\ pc = "deleteDangling"
    /\ \/ LET kept == {d \in document : d.path # existingDocuments[j].path}
          IN  /\ document' = kept
              /\ document_section' = Cascade(kept)
              /\ log' = Append(log, Call("deleteDangling", TRUE))
              /\ embeddingResult' = Count("deleteCount")
              /\ j' = NextDangling(existingDocuments, j + 1)
              /\ UNCHANGED nfail
       \/ /\ Fails
          /\ log' = Append(log, Call("deleteDangling", FALSE))
          /\ embeddingResult' = Count("errorCount")
          /\ j' = 0
          /\ UNCHANGED <<document, document_section>>
    /\ pc' = IF j' = 0 THEN "return" ELSE "deleteDangling"
    /\ UNCHANGED <<corpusVars, nextId, files, idx, fileVars,
                   existingDocuments, passes, hist>>
    /\ UNCHANGED <<queryVars, otherVars>>

\* lines 231-246: delete().eq("path", document.path) of one dangling row
DeleteDangling ==
    /\ pc = "deleteDangling"
    /\ \/ LET kept == {d \in document : d.path # existingDocuments[j].path}
          IN  /\ document' = kept
              /\ document_section' = Cascade(kept)
              /\ log' = Append(log, Call("deleteDangling", TRUE))
              /\ embeddingResult' = Count("deleteCount")
              /\ UNCHANGED nfail
       \/ /\ Fails
          /\ log' = Append(log, Call("deleteDangling", FALSE))
          /\ embeddingResult' = [embeddingResult EXCEPT !.errorCount = @ + 1,
                                                        !.deleteCount = @ + 1]
          /\ UNCHANGED <<document, document_section>>
    /\ j' = NextDangling(existingDocuments, j + 1)
    /\ pc' = IF j' = 0 THEN "return" ELSE "deleteDangling"
    /\ UNCHANGED <<corpusVars, nextId, files, idx, fileVars,
                   existingDocuments, passes, hist>>
    /\ UNCHANGED <<queryVars, otherVars>>

\* line 248
Return ==
    /\ pc = "return"
    /\ pc' = "returned"
    /\ hist' = [hist EXCEPT !.lastClean = (embeddingResult.errorCount = 0),
                            !.lastAborted = FALSE,
                            !.lastInsertFailed =
                                {files[log[n].idx] : n \in
                                    {m \in 1..Len(log) :
                                        log[m].op = "insert" /\ ~log[m].ok}}]
    /\ UNCHANGED <<corpusVars, storeVars, files, idx, fileVars, embeddingResult,
                   cleanupVars, passes, nfail, log>>
    /\ UNCHANGED <<queryVars, otherVars>>

(***************************************************************************)
(* The environment: the pass is abandoned at a suspension point (the       *)
(* application is closed); between passes the user edits the vault and     *)
(* the settings.                                                           *)
(***************************************************************************)
ToIdle ==
    /\ pc' = "idle"
    /\ files' = <<>>
    /\ idx' = 0
    /\ ResetFile
    /\ embeddingResult' = Zero
    /\ existingDocuments' = <<>>
    /\ j' = 0
    /\ log' = <<>>

\* what is remembered, while no pass runs, of the passes before
BetweenPasses ==
    [hist EXCEPT !.lastClean = FALSE, !.prevClean = FALSE, !.prevAborted = FALSE,
                 !.changed = {}, !.start = {}, !.prevInsertFailed = {}]

Abort ==
    /\ pc \in RunningPcs
    /\ nfail < MaxFailures
    /\ nfail' = nfail + 1
    /\ ToIdle
    /\ hist' = [BetweenPasses EXCEPT !.lastAborted = TRUE, !.lastInsertFailed = {}]
    /\ UNCHANGED <<corpusVars, storeVars, passes>>
    /\ UNCHANGED <<queryVars, otherVars>>

EditVault ==
    /\ pc \in {"idle", "returned"}
    /\ passes < MaxPasses
    /\ \E p \in Paths, c \in Contents \cup {Absent} :
        /\ c # vault[p]
        /\ vault' = [vault EXCEPT ![p] = c]
        /\ vault' \in Vaults
    /\ hist' = BetweenPasses
    /\ ToIdle
    /\ UNCHANGED <<excludeDirs, publicDirs, storeVars, passes, nfail>>
    /\ UNCHANGED <<queryVars, otherVars>>

ChangeSettings ==
    /\ pc \in {"idle", "returned"}
    /\ passes < MaxPasses
    /\ \E e \in ExcludeChoices, pub \in PublicChoices :
        /\ <<e, pub>> # <<excludeDirs, publicDirs>>
        /\ excludeDirs' = e
        /\ publicDirs' = pub
    /\ hist' = BetweenPasses
    /\ ToIdle
    /\ UNCHANGED <<vault, storeVars, passes, nfail>>
    /\ UNCHANGED <<queryVars, otherVars>>

Next ==
    \/ StartPass
    \/ Lookup
    \/ ReadAndClassify
    \/ UpdateAccess
    \/ DeleteSections
    \/ UpsertDocument
    \/ CreateEmbedding
    \/ InsertSection
    \/ SetChecksum
    \/ ListDocuments
    \/ DeleteDangling
    \/ Return
    \/ Abort
    \/ EditVault
    \/ ChangeSettings

Spec == Init /\ [][Next]_vars

(***************************************************************************)
(* The older generateEmbeddings (src/generate-embeddings.ts 220-367): it   *)
(* scans every markdown file, stores every record with public false, and   *)
(* has no access update, no counts that it returns and no cleanup.  Its    *)
(* loop issues the calls of the newer one, except for its lookup.          *)
(***************************************************************************)
LegacyInit ==
    /\ Init
    /\ excludeDirs = {}
    /\ publicDirs = {}

\* lines 239-249: the response is destructured as { erfor: fetchDocumentError,
\* data: existingDocument }; the response has no field erfor, so that
\* fetchDocumentError is undefined whatever the store answered, and after an
\* error existingDocument is the null data of the response
LegacyLookup ==
    /\ pc = "lookup"
    /\ \/ /\ existingDocument' \in
                IF \E d \in document : d.path = file
                THEN {d \in document : d.path = file} ELSE {NoRow}
          /\ log' = Append(log, Call("lookup", TRUE))
          /\ UNCHANGED nfail
       \/ /\ Fails
          /\ existingDocument' = NoRow
          /\ log' = Append(log, Call("lookup", FALSE))
    /\ pc' = "read"
    /\ UNCHANGED <<idx, markdown, doc, sections, k, embeddingResult, hist>>
    /\ UNCHANGED <<corpusVars, storeVars, files, cleanupVars, passes>>
    /\ UNCHANGED <<queryVars, otherVars>>

\* line 367: the function ends with its loop
LegacyReturn ==
    /\ pc = "list"
    /\ pc' = "returned"
    /\ hist' = [hist EXCEPT !.lastClean = (embeddingResult.errorCount = 0),
                            !.lastAborted = FALSE,
                            !.lastInsertFailed =
                                {files[log[n].idx] : n \in
                                    {m \in 1..Len(log) :
                                        log[m].op = "insert" /\ ~log[m].ok}}]
    /\ UNCHANGED <<corpusVars, storeVars, files, idx, fileVars, embeddingResult,
                   cleanupVars, passes, nfail, log>>
    /\ UNCHANGED <<queryVars, otherVars>>

LegacyNext ==
    \/ StartPass
    \/ LegacyLookup
    \/ ReadAndClassify
    \/ DeleteSections
    \/ UpsertDocument
    \/ CreateEmbedding
    \/ InsertSection
    \/ SetChecksum
    \/ LegacyReturn
    \/ EditVault

LegacySpec == LegacyInit /\ [][LegacyNext]_vars

(***************************************************************************)
(* One pass over a vault of one note and an empty store, for each of the   *)
(* bodies a note can have: parseMarkdown and splitIntoParagraphs applied   *)
(* by the pass to what cachedRead returns.                                 *)
(***************************************************************************)
Fence == <<"-", "-", "-", NL>>

Bodies ==
    {<<>>,                                      \* an empty note
     Fence \o <<"t", NL>> \o Fence,             \* front matter and nothing else
     Fence \o <<"t", NL>> \o Fence \o <<"b">>,  \* front matter and a paragraph
     Fence \o <<"[", NL>> \o Fence \o <<"b">>,  \* front matter that is not YAML
     <<NL, NL, "b">>,                           \* blank lines first
     <<"b", NL, " ", NL>>,                      \* blank lines last
     <<"a", NL, NL, "b">>,
     <<"a", NL, "b">>}

BodyInit ==
    /\ vault \in {[p \in Paths |-> IF p = PathA THEN b ELSE Absent] : b \in Bodies}
    /\ excludeDirs = {}
    /\ publicDirs = {}
    /\ document = {}
    /\ document_section = <<>>
    /\ nextId = 1
    /\ pc = "idle"
    /\ files = <<>>
    /\ idx = 0
    /\ existingDocument = NoRow
    /\ markdown = <<>>
    /\ doc = NoRow
    /\ sections = <<>>
    /\ k = 0
    /\ embeddingResult = Zero
    /\ existingDocuments = <<>>
    /\ j = 0
    /\ passes = MaxPasses - 1
    /\ nfail = 0
    /\ log = <<>>
    /\ hist = HistInit
    /\ QueryIdle
    /\ OtherIdle

BodyNext ==
    \/ StartPass
    \/ Lookup
    \/ ReadAndClassify
    \/ UpsertDocument
    \/ CreateEmbedding
    \/ InsertSection
    \/ SetChecksum
    \/ ListDocuments
    \/ Return

BodySpec == BodyInit /\ [][BodyNext]_vars

TypeOK ==
    /\ pc \in RunningPcs \cup {"idle", "return", "returned", "thrown"}
    /\ \A d1, d2 \in document : d1.path = d2.path => d1 = d2

(***************************************************************************)
(* The scan of lines 22-25 on its own, over vaults and excluded             *)
(* directories that exercise path.normalize and startsWith.                *)
(***************************************************************************)
\* the host's list of markdown files, in its order
ScanOrder == <<PathA, <<"p", "/", "/", "x">>, <<"p", "q", "/", "x">>, PathB>>

\* the entries excludeDirs can hold
ScanDirs == {DirP, <<"p", "/">>, <<"q", "/", "/">>, <<"x">>}

ScanInit ==
    /\ vault \in [{ScanOrder[n] : n \in 1..Len(ScanOrder)} -> {Str2, Absent}]
    /\ excludeDirs \in SUBSET ScanDirs
    /\ publicDirs = {}
    /\ document = {}
    /\ document_section = <<>>
    /\ nextId = 1
    /\ pc = "idle"
    /\ files = <<>>
    /\ idx = 0
    /\ existingDocument = NoRow
    /\ markdown = <<>>
    /\ doc = NoRow
    /\ sections = <<>>
    /\ k = 0
    /\ embeddingResult = Zero
    /\ existingDocuments = <<>>
    /\ j = 0
    /\ passes = 0
    /\ nfail = 0
    /\ log = <<>>
    /\ hist = HistInit
    /\ QueryIdle
    /\ OtherIdle

\* lines 22-36: generateEmbeddings scans the vault and zeroes its counts
ScanVault ==
    /\ pc = "idle"
    /\ files' = Filter(Listed(ScanOrder, vault), excludeDirs)
    /\ embeddingResult' = Zero
    /\ idx' = 1
    /\ pc' = IF files' = <<>> THEN "list" ELSE "lookup"
    /\ log' = <<>>
    /\ UNCHANGED <<corpusVars, storeVars, fileVars, cleanupVars, passes, nfail, hist>>
    /\ UNCHANGED <<queryVars, otherVars>>

ScanSpec == ScanInit /\ [][ScanVault]_vars

(***************************************************************************)
(* The query path: semanticSearch and generativeSearch of                  *)
(* src/src/semantic-search.ts (the plugin's modal) and of                  *)
(* src/supabase/functions/_shared/search.ts (the edge functions), with     *)
(* the moderation each entry point runs first.  A query runs against the   *)
(* store of an indexed vault; every awaited call is one action.            *)
(***************************************************************************)
\* number of rows match_document_sections returns at most (match_count)
MaxMatches == 3

\* the token budget of the context sections
TokenBudget == 1500

\* a stretch of text that the tokenizer encodes to 600, 900 or 1500 tokens is one
\* character of the model; any other character is one token
Tokens(c) ==
    CASE c = "T600" -> 600
      [] c = "T900" -> 900
      [] c = "T1500" -> 1500
      [] OTHER -> 1

\* encode(content).length
RECURSIVE encodedLength(_)
encodedLength(content) ==
    IF content = <<>> THEN 0
    ELSE Tokens(Head(content)) + encodedLength(Tail(content))

\* the two notes of the indexed vault
NoteA == <<"T600", NL, NL, "T600", NL, NL, "w">>
NoteB == <<"T600", NL, NL, "T900", NL, NL, "T1500">>

\* the row and the sections a pass stores for a note with body md
IndexedRow(id, p, md) ==
    [id |-> id, path |-> p, checksum |-> Checksum(md), public |-> FALSE,
     meta |-> parseMarkdown(md).frontmatter]

IndexedSections(id, md) ==
    [n \in 1..Len(Paragraphs(md)) |->
        [document_id |-> id, content |-> Paragraphs(md)[n], ver |-> md, old |-> FALSE]]

Queries == {<<"h", "i">>, <<" ", "h", NL, "i", " ">>}

Entries == {"MagicSearchModal.getSuggestions", "MagicSearchModal.ask",
            "AISearchModal.getSuggestions", "semantic-search", "generative-answer"}

\* the entry points that go on to generativeSearch
Generative == {"MagicSearchModal.ask", "generative-answer"}

\* the entry points whose search runs on the trimmed query (sanitizedQuery)
Sanitizing == {"MagicSearchModal.getSuggestions", "MagicSearchModal.ask"}

\* the vault of the two notes after a pass over it, and no pass running
IndexedNotes ==
    /\ vault = [p \in Paths |-> IF p = PathA THEN NoteA ELSE NoteB]
    /\ excludeDirs = {}
    /\ publicDirs = {}
    /\ document = {IndexedRow(1, PathA, NoteA), IndexedRow(2, PathB, NoteB)}
    /\ document_section = IndexedSections(1, NoteA) \o IndexedSections(2, NoteB)
    /\ nextId = 3
    /\ pc = "idle"
    /\ files = <<>>
    /\ idx = 0
    /\ existingDocument = NoRow
    /\ markdown = <<>>
    /\ doc = NoRow
    /\ sections = <<>>
    /\ k = 0
    /\ embeddingResult = Zero
    /\ existingDocuments = <<>>
    /\ j = 0
    /\ passes = 0
    /\ nfail = 0
    /\ log = <<>>
    /\ hist = HistInit

QueryInit ==
    /\ IndexedNotes
    /\ QueryIdle
    /\ OtherIdle

Request(api, input) == [api |-> api, input |-> input]

\* an error thrown by the handler reaches the caller of the entry point
Thrown(message) == [NoReply EXCEPT !.error = message]

\* main.ts 818-821: an error thrown by semanticSearch is shown as a notice and
\* the suggestions are empty
SearchError(message) ==
    IF entry = "AISearchModal.getSuggestions"
    THEN [NoReply EXCEPT !.notice = message]
    ELSE Thrown(message)

\* a key press in the modal, a request to an edge function
Submit ==
    /\ qpc \in {"idle", "done"}
    /\ \E e \in Entries, q \in Queries :
        /\ entry' = e
        /\ query' = q
    /\ qpc' = "moderate"
    /\ moderation' = ""
    /\ requests' = <<>>
    /\ documentSections' = <<>>
    /\ hydrated' = 0
    /\ tokenCount' = 0
    /\ contextText' = <<>>
    /\ reply' = NoReply
    /\ matchResponse' = NoResponse
    /\ choices' = <<>>
    /\ UNCHANGED <<options, indexerVars, otherVars>>

\* the handler goes on whatever the moderation says
ModerationGateOpen(flagged) == "embed"

\* if (results.flagged) throw new Error("Flagged content")
ModerationGate(flagged) == IF flagged THEN "done" ELSE "embed"

\* openai.createModeration({ input: query.trim() })
CreateModeration ==
    /\ qpc = "moderate"
    /\ requests' = Append(requests, Request("createModeration", Trim(query)))
    /\ \/ \E flagged \in BOOLEAN :
            /\ moderation' = IF flagged THEN "flagged" ELSE "clean"
            /\ qpc' = ModerationGate(flagged)
            /\ reply' = IF ModerationGate(flagged) = "done"
                        THEN Thrown("Flagged content") ELSE reply
       \/ /\ moderation' = "rejected"
          /\ qpc' = "done"
          /\ reply' = Thrown("moderation request failed")
    /\ UNCHANGED <<entry, query, documentSections, hydrated, tokenCount, contextText,
                   options, matchResponse, choices, indexerVars, otherVars>>

\* sanitizedQuery.split("\n").join(" ")
JoinLines(s) == [n \in 1..Len(s) |-> IF s[n] = NL THEN " " ELSE s[n]]

\* openai.createEmbedding of the query
CreateQueryEmbedding ==
    /\ qpc = "embed"
    /\ requests' = Append(requests,
            Request("createEmbedding",
                    JoinLines(IF entry \in Sanitizing THEN Trim(query) ELSE query)))
    /\ \/ /\ qpc' = "match"
          /\ UNCHANGED reply
       \/ /\ qpc' = "done"
          /\ reply' = SearchError("Failed to create embedding for question")
    /\ UNCHANGED <<entry, query, moderation, documentSections, hydrated, tokenCount,
                   contextText, options, matchResponse, choices, indexerVars, otherVars>>

NoDocument == [id |-> 0, path |-> <<>>]

\* the vector store's similarity function ranks the stored sections that pass
\* its threshold and its minimal length: its contract names no condition on the
\* record of the section's document, so that every stored section can match
Matchable == 1..Len(document_section)

\* the results match_document_sections can return: up to MaxMatches stored
\* sections, in the order of their similarity to the query
MatchResults ==
    UNION {{[n \in 1..m |->
                [document_id |-> document_section[f[n]].document_id,
                 content |-> document_section[f[n]].content,
                 document |-> NoDocument]] :
            f \in {g \in [1..m -> Matchable] :
                        \A a, b \in 1..m : a # b => g[a] # g[b]}} :
           m \in 0..MaxMatches}

\* semanticSearch returns found: to its caller, or to generativeSearch
SearchReturns(found) ==
    IF entry \in Generative
    THEN /\ qpc' = "assemble"
         /\ UNCHANGED reply
    ELSE /\ qpc' = "done"
         /\ reply' = [NoReply EXCEPT !.sections = found]

\* process.env X ?? "default", parsed
EnvOr(value, default) == IF value = Unset THEN default ELSE value

\* the options a user or an operator can set
Options == [matchThreshold : {Unset, 50}, matchCount : {Unset, 5},
            minContentLength : {Unset, 20}]

\* the arguments of match_document_sections, by entry point; thresholds in
\* hundredths
MatchParams ==
    CASE entry \in {"MagicSearchModal.getSuggestions", "MagicSearchModal.ask"} ->
            [match_threshold |-> 78, match_count |-> 10, min_content_length |-> 50]
      [] entry = "AISearchModal.getSuggestions" ->
            [match_threshold |-> EnvOr(options.matchThreshold, 78),
             match_count |-> EnvOr(options.matchCount, 10),
             min_content_length |-> EnvOr(options.minContentLength, 50)]
      [] OTHER ->
            [match_threshold |-> EnvOr(options.matchThreshold, 78),
             match_count |-> EnvOr(options.matchCount, 10),
             min_content_length |-> EnvOr(options.matchCount, 50)]

\* between two queries the options are set anew: the settings tab of the plugin,
\* the environment of the edge functions
Configure ==
    /\ qpc \in {"idle", "done"}
    /\ options' \in Options \ {options}
    /\ entry' = ""
    /\ qpc' = "idle"
    /\ query' = <<>>
    /\ moderation' = ""
    /\ requests' = <<>>
    /\ documentSections' = <<>>
    /\ hydrated' = 0
    /\ tokenCount' = 0
    /\ contextText' = <<>>
    /\ reply' = NoReply
    /\ matchResponse' = NoResponse
    /\ choices' = <<>>
    /\ UNCHANGED <<indexerVars, otherVars>>

\* an error of the match call is taken for an empty result
MatchErrorIgnored ==
    /\ documentSections' = <<>>
    /\ SearchReturns(<<>>)

\* if (matchError) throw new Error("Failed to match document sections")
MatchError ==
    /\ qpc' = "done"
    /\ reply' = SearchError("Failed to match document sections")
    /\ UNCHANGED documentSections

\* supabaseClient.rpc("match_document_sections", ...)
MatchDocumentSections ==
    /\ qpc = "match"
    /\ requests' = Append(requests, Request("match_document_sections", MatchParams))
    /\ \/ \E found \in MatchResults :
            /\ matchResponse' = [error |-> FALSE, data |-> found]
            /\ documentSections' = found
            /\ IF found = <<>>
               THEN SearchReturns(found)
               ELSE qpc' = "hydrate" /\ UNCHANGED reply
       \/ /\ matchResponse' = [error |-> TRUE, data |-> <<>>]
          /\ MatchError
    /\ UNCHANGED <<entry, query, moderation, hydrated, tokenCount, contextText,
                   options, choices, indexerVars, otherVars>>

\* the section that got its document moves to the front of the list
HydrateToFront(found, n, d) ==
    <<[found[n] EXCEPT !.document = [id |-> d.id, path |-> d.path]]>>
        \o SubSeq(found, 1, n - 1) \o SubSeq(found, n + 1, Len(found))

\* section["document"] = document
Hydrate(found, n, d) == [found EXCEPT ![n].document = [id |-> d.id, path |-> d.path]]

\* a lookup that fails leaves its section as it is and the loop goes on
FetchDocumentSkip ==
    /\ qpc = "hydrate"
    /\ requests' = Append(requests, Request("document", <<>>))
    /\ LET rows == {d \in document : d.id = documentSections[hydrated + 1].document_id}
       IN  /\ \/ /\ Cardinality(rows) = 1
                 /\ documentSections' =
                        Hydrate(documentSections, hydrated + 1, CHOOSE d \in rows : TRUE)
              \/ UNCHANGED documentSections
           /\ hydrated' = hydrated + 1
           /\ IF hydrated' = Len(documentSections)
              THEN SearchReturns(documentSections')
              ELSE qpc' = "hydrate" /\ UNCHANGED reply
    /\ UNCHANGED <<entry, query, moderation, tokenCount, contextText, options,
                   matchResponse, choices, indexerVars, otherVars>>

\* from("document").select("id, path").eq("id", section.document_id).single()
FetchDocument ==
    /\ qpc = "hydrate"
    /\ requests' = Append(requests, Request("document", <<>>))
    /\ LET rows == {d \in document : d.id = documentSections[hydrated + 1].document_id}
       IN  \/ /\ Cardinality(rows) = 1
              /\ documentSections' =
                    Hydrate(documentSections, hydrated + 1, CHOOSE d \in rows : TRUE)
              /\ hydrated' = hydrated + 1
              /\ IF hydrated' = Len(documentSections)
                 THEN SearchReturns(documentSections')
                 ELSE qpc' = "hydrate" /\ UNCHANGED reply
           \/ /\ qpc' = "done"
              /\ reply' = SearchError("fetchDocumentError")
              /\ UNCHANGED <<documentSections, hydrated>>
    /\ UNCHANGED <<entry, query, moderation, tokenCount, contextText, options,
                   matchResponse, choices, indexerVars, otherVars>>

Separator == <<NL, "-", "-", "-", NL>>

\* the loop ends only when the count is over the budget
BudgetExceeded(count) == count > TokenBudget

\* if (tokenCount >= 1500) break
BudgetReached(count) == count >= TokenBudget

\* the loop over matches, from section i on
RECURSIVE Accumulate(_, _, _, _)
Accumulate(matches, i, count, text) ==
    IF i > Len(matches)
    THEN [tokenCount |-> count, contextText |-> text]
    ELSE IF BudgetReached(count + encodedLength(matches[i].content))
         THEN [tokenCount |-> count + encodedLength(matches[i].content),
               contextText |-> text]
         ELSE Accumulate(matches, i + 1, count + encodedLength(matches[i].content),
                         text \o Trim(matches[i].content) \o Separator)

\* generativeSearch: the context of the prompt
AssembleContext ==
    /\ qpc = "assemble"
    /\ tokenCount' = Accumulate(documentSections, 1, 0, <<>>).tokenCount
    /\ contextText' = Accumulate(documentSections, 1, 0, <<>>).contextText
    /\ qpc' = "chat"
    /\ UNCHANGED <<entry, query, moderation, requests, documentSections, hydrated,
                   reply, options, matchResponse, choices, indexerVars, otherVars>>

\* a choice whose message or whose content is missing
Undefined == "undefined"

\* the choices a chat completion can come back with
ChatChoices == {<<>>, <<[content |-> Undefined]>>, <<[content |-> "first"]>>,
                <<[content |-> "first"], [content |-> "second"]>>}

\* return responseJson.choices[0].message?.content, and what the caller makes
\* of it: the modal types answer ?? "No answer", the edge function responds
\* with JSON.stringify(answer)
Answer(cs) ==
    IF cs = <<>>
    THEN Thrown("TypeError: Cannot read properties of undefined")
    ELSE IF entry = "MagicSearchModal.ask" /\ cs[1].content = Undefined
         THEN [NoReply EXCEPT !.answer = "No answer"]
         ELSE [NoReply EXCEPT !.answer = cs[1].content]

\* the prompt goes out after a system message
ChatRequestWithSystem(context) ==
    [api |-> "createChatCompletion", input |-> context,
     messages |-> <<[role |-> "system"], [role |-> "user"]>>]

\* createChatCompletion({ model, messages: [chatMessage] }), chatMessage being
\* { role: "user", content: prompt }; the prompt is known by its context
ChatRequest(context) ==
    [api |-> "createChatCompletion", input |-> context, messages |-> <<[role |-> "user"]>>]

\* openai.createChatCompletion with the prompt as its one message
CreateChatCompletion ==
    /\ qpc = "chat"
    /\ requests' = Append(requests, ChatRequest(contextText))
    /\ qpc' = "done"
    /\ \/ \E cs \in ChatChoices :
            /\ choices' = cs
            /\ reply' = Answer(cs)
       \/ /\ reply' = Thrown("chat completion request failed")
          /\ UNCHANGED choices
    /\ UNCHANGED <<entry, query, moderation, documentSections, hydrated, tokenCount,
                   contextText, options, matchResponse, indexerVars, otherVars>>

QueryNext ==
    \/ Submit
    \/ CreateModeration
    \/ CreateQueryEmbedding
    \/ MatchDocumentSections
    \/ FetchDocument
    \/ AssembleContext
    \/ CreateChatCompletion

QuerySpec == QueryInit /\ [][QueryNext]_vars

\* queries under every configuration of the retrieval options
ConfiguredNext ==
    \/ QueryNext
    \/ Configure

ConfiguredSpec == QueryInit /\ [][ConfiguredNext]_vars

(***************************************************************************)
(* A query while a pass runs: the modal is opened by the user at any time, *)
(* the pass and the query are two async functions of the one event loop,   *)
(* and each await of the one lets the other go on.  The note p/x is stored *)
(* as it was indexed with the body Str2; the pass that runs is the last    *)
(* one.                                                                    *)
(***************************************************************************)
ConcurrentInit ==
    /\ vault \in {v \in Vaults : v[PathA] # Absent}
    /\ excludeDirs = {}
    /\ publicDirs = {}
    /\ document = {IndexedRow(1, PathA, Str2)}
    /\ document_section = IndexedSections(1, Str2)
    /\ nextId = 2
    /\ pc = "idle"
    /\ files = <<>>
    /\ idx = 0
    /\ existingDocument = NoRow
    /\ markdown = <<>>
    /\ doc = NoRow
    /\ sections = <<>>
    /\ k = 0
    /\ embeddingResult = Zero
    /\ existingDocuments = <<>>
    /\ j = 0
    /\ passes = MaxPasses - 1
    /\ nfail = 0
    /\ log = <<>>
    /\ hist = HistInit
    /\ QueryIdle
    /\ OtherIdle

ConcurrentNext ==
    \/ StartPass
    \/ Lookup
    \/ ReadAndClassify
    \/ DeleteSections
    \/ UpsertDocument
    \/ CreateEmbedding
    \/ InsertSection
    \/ SetChecksum
    \/ ListDocuments
    \/ Return
    \/ QueryNext

ConcurrentSpec == ConcurrentInit /\ [][ConcurrentNext]_vars

(***************************************************************************)
(* A query while the cleanup of a pass runs: the notes p/x and q/y are     *)
(* stored as they were indexed, the note q/y has been removed from the     *)
(* vault since, and the one pass that runs deletes its record.             *)
(***************************************************************************)
CleanupInit ==
    /\ vault = [p \in Paths |-> IF p = PathA THEN Str2 ELSE Absent]
    /\ excludeDirs = {}
    /\ publicDirs = {}
    /\ document = {IndexedRow(1, PathA, Str2), IndexedRow(2, PathB, NoteB)}
    /\ document_section = IndexedSections(1, Str2) \o IndexedSections(2, NoteB)
    /\ nextId = 3
    /\ pc = "idle"
    /\ files = <<>>
    /\ idx = 0
    /\ existingDocument = NoRow
    /\ markdown = <<>>
    /\ doc = NoRow
    /\ sections = <<>>
    /\ k = 0
    /\ embeddingResult = Zero
    /\ existingDocuments = <<>>
    /\ j = 0
    /\ passes = MaxPasses - 1
    /\ nfail = 0
    /\ log = <<>>
    /\ hist = HistInit
    /\ QueryIdle
    /\ OtherIdle

CleanupNext ==
    \/ StartPass
    \/ Lookup
    \/ ReadAndClassify
    \/ ListDocuments
    \/ DeleteDangling
    \/ Return
    \/ QueryNext

CleanupSpec == CleanupInit /\ [][CleanupNext]_vars

(***************************************************************************)
(* The plugin (main.ts 456-640, 927-961): its settings, the two clients    *)
(* built from them, the commands that start a pass or open the modal, and  *)
(* the environment of the two edge functions.                              *)
(***************************************************************************)
\* a secret as the user left it: empty, or some text
Secrets == {"", "key"}

\* the client is built when one of its two secrets is set
setupSupabaseEither(c) ==
    [c EXCEPT !.supabaseClient =
        IF ~(c.supabaseUrl = "" /\ c.supabaseKey = "") THEN "client" ELSE "null"]

\* lines 462-487
setupSupabase(c) ==
    [c EXCEPT !.supabaseClient =
        IF ~(c.supabaseUrl = "" \/ c.supabaseKey = "") THEN "client" ELSE "null"]

\* lines 489-503
setupOpenai(c) ==
    [c EXCEPT !.openai = IF ~(c.openaiKey = "") THEN "client" ELSE "null"]

\* this.supabaseClient !== null && this.openai !== null
ClientsReady == config.supabaseClient # "null" /\ config.openai # "null"

\* lines 505-523: onload has loaded the settings, has built the clients and has
\* registered, or not, the pass of the start
PluginInit ==
    /\ IndexedNotes
    /\ QueryIdle
    /\ suspended = NoPass
    /\ ModalIdle
    /\ \E url, key, openaiKey \in Secrets, indexOnOpen \in BOOLEAN,
          env \in [{"SUPABASE_URL", "SUPABASE_ANON_KEY", "OPENAI_KEY"} -> Secrets] :
        LET loaded == [Configured EXCEPT !.supabaseUrl = url, !.supabaseKey = key,
                                         !.openaiKey = openaiKey,
                                         !.indexOnOpen = indexOnOpen, !.env = env]
            built == setupOpenai(setupSupabase(loaded))
        IN  config = [built EXCEPT !.onLayoutReady =
                                        /\ indexOnOpen
                                        /\ built.supabaseClient # "null"
                                        /\ built.openai # "null"]

\* lines 927-961: onChange of one of the three secrets assigns the setting,
\* saves the settings and sets up the client the secret is for
EditSecret ==
    /\ \E f \in {"supabaseUrl", "supabaseKey", "openaiKey"}, value \in Secrets :
        /\ value # config[f]
        /\ LET assigned == [config EXCEPT ![f] = value, !.edited = TRUE]
           IN  config' = IF f = "openaiKey" THEN setupOpenai(assigned)
                                            ELSE setupSupabase(assigned)
    /\ UNCHANGED <<indexerVars, queryVars, suspended, uiVars>>

\* lines 524-542: the callback of onLayoutReady
IndexOnOpen ==
    /\ config.onLayoutReady
    /\ passes = 0
    /\ ClientsReady
    /\ StartPass

\* lines 567-593: the command Refresh Index
RefreshIndex ==
    /\ ClientsReady
    /\ StartPass

\* lines 546-565: the command AI Search
OpenAISearch ==
    /\ ClientsReady
    /\ config.modal = "closed"
    /\ config' = [config EXCEPT !.modal = "open"]
    /\ UNCHANGED <<indexerVars, queryVars, suspended, uiVars>>

\* the modal is closed
CloseAISearch ==
    /\ config.modal = "open"
    /\ config' = [config EXCEPT !.modal = "closed"]
    /\ UNCHANGED <<indexerVars, queryVars, suspended, uiVars>>

EdgeFunctions == {"semantic-search", "generative-answer"}

\* semantic-search/index.ts 29-47: what the handler throws for its environment
MissingKey(env) ==
    IF ~(env.SUPABASE_URL # "" /\ env.SUPABASE_ANON_KEY # "") THEN "Missing Supabase Key!"
    ELSE IF ~(env.OPENAI_KEY # "") THEN "Missing OpenAI Key!"
    ELSE ""

\* semantic-search/index.ts 14-48: a request to an edge function
Serve ==
    /\ Submit
    /\ entry' \in EdgeFunctions
    /\ MissingKey(config.env) = ""

\* the handler throws before its first call
ServeMissingKey ==
    /\ qpc \in {"idle", "done"}
    /\ MissingKey(config.env) # ""
    /\ entry' \in EdgeFunctions
    /\ query' \in Queries
    /\ qpc' = "done"
    /\ reply' = Thrown(MissingKey(config.env))
    /\ moderation' = ""
    /\ requests' = <<>>
    /\ documentSections' = <<>>
    /\ hydrated' = 0
    /\ tokenCount' = 0
    /\ contextText' = <<>>
    /\ matchResponse' = NoResponse
    /\ choices' = <<>>
    /\ UNCHANGED <<options, indexerVars, otherVars>>

PluginNext ==
    \/ EditSecret
    \/ IndexOnOpen
    \/ RefreshIndex
    \/ OpenAISearch
    \/ CloseAISearch
    \/ Serve
    \/ ServeMissingKey
    \/ CreateModeration

PluginSpec == PluginInit /\ [][PluginNext]_vars

(***************************************************************************)
(* Two passes at once: generateEmbeddings is called again (the command     *)
(* Refresh Index tests the clients only) while a call of it is at one of   *)
(* its awaits.  Each call has its own locals; the store is the one both    *)
(* write to.  The variables of the pass hold the locals of the call that   *)
(* runs, suspended those of the call that waits.  No call fails.           *)
(***************************************************************************)
Locals ==
    [pc |-> pc, files |-> files, idx |-> idx, existingDocument |-> existingDocument,
     markdown |-> markdown, doc |-> doc, sections |-> sections, k |-> k,
     embeddingResult |-> embeddingResult, existingDocuments |-> existingDocuments,
     j |-> j, log |-> log]

Resume(l) ==
    /\ pc' = l.pc
    /\ files' = l.files
    /\ idx' = l.idx
    /\ existingDocument' = l.existingDocument
    /\ markdown' = l.markdown
    /\ doc' = l.doc
    /\ sections' = l.sections
    /\ k' = l.k
    /\ embeddingResult' = l.embeddingResult
    /\ existingDocuments' = l.existingDocuments
    /\ j' = l.j
    /\ log' = l.log

OverlapInit ==
    /\ vault \in {v \in Vaults : v[PathA] # Absent}
    /\ excludeDirs = {}
    /\ publicDirs = {}
    /\ document = {}
    /\ document_section = <<>>
    /\ nextId = 1
    /\ pc = "idle"
    /\ files = <<>>
    /\ idx = 0
    /\ existingDocument = NoRow
    /\ markdown = <<>>
    /\ doc = NoRow
    /\ sections = <<>>
    /\ k = 0
    /\ embeddingResult = Zero
    /\ existingDocuments = <<>>
    /\ j = 0
    /\ passes = MaxPasses - 2
    /\ nfail = MaxFailures
    /\ log = <<>>
    /\ hist = HistInit
    /\ QueryIdle
    /\ OtherIdle

\* main.ts 567-593: generateEmbeddings is called while a call of it is at an
\* await; generate-embeddings.ts 22-38: the new call up to its first await
StartSecondPass ==
    /\ pc \in RunningPcs
    /\ suspended = NoPass
    /\ passes < MaxPasses
    /\ passes' = passes + 1
    /\ suspended' = Locals
    /\ files' = Scan(excludeDirs)
    /\ embeddingResult' = Zero
    /\ idx' = 1
    /\ pc' = IF files' = <<>> THEN "list" ELSE "lookup"
    /\ log' = <<>>
    /\ ResetFile
    /\ existingDocuments' = <<>>
    /\ j' = 0
    /\ UNCHANGED <<corpusVars, storeVars, nfail, hist, queryVars, config, uiVars>>

\* the call that runs is at an await, or has returned: the other call goes on
Switch ==
    /\ suspended # NoPass
    /\ suspended.pc \in RunningPcs
    /\ pc \in RunningPcs \cup {"returned"}
    /\ suspended' = Locals
    /\ Resume(suspended)
    /\ UNCHANGED <<corpusVars, storeVars, passes, nfail, hist, queryVars, config, uiVars>>

OverlapNext ==
    \/ StartPass
    \/ StartSecondPass
    \/ Switch
    \/ Lookup
    \/ ReadAndClassify
    \/ DeleteSections
    \/ UpsertDocument
    \/ CreateEmbedding
    \/ InsertSection
    \/ SetChecksum
    \/ ListDocuments
    \/ Return

OverlapSpec == OverlapInit /\ [][OverlapNext]_vars


(***************************************************************************)
(* The search modals: MagicSearchModal of src/main.ts, MagicSearchModal of *)
(* src/src/main.ts and AISearchModal of src/src/main.ts.  A command        *)
(* builds a new modal and opens it; a keydown event of the document runs   *)
(* the listeners registered at that moment, in the order of their          *)
(* registration; a listener is the function object it was registered with. *)
(***************************************************************************)
MagicSearchModal0 == "src/main.ts MagicSearchModal"
MagicSearchModal == "src/src/main.ts MagicSearchModal"
AISearchModal == "src/src/main.ts AISearchModal"

Classes == {MagicSearchModal0, MagicSearchModal, AISearchModal}

\* the function fn created for the modal instance inst
Listener(fn, inst) == [fn |-> fn, inst |-> inst]

\* the value undefined, where a listener is expected
NoListener == Listener("undefined", 0)

\* document.addEventListener("keydown", l): a listener is registered once
AddListener(list, l) ==
    IF \E n \in 1..Len(list) : list[n] = l THEN list ELSE Append(list, l)

\* document.removeEventListener("keydown", l)
RemoveListener(list, l) == SelectSeq(list, LAMBDA x : x # l)

\* this.keyListener after onOpen: src/main.ts 168 assigns what addEventListener
\* returns, src/src/main.ts 209 assigns the function
KeyListenerField(class, inst) ==
    IF class = MagicSearchModal0 THEN NoListener ELSE Listener("keyListener", inst)

\* the command callback: new ...Modal(...).open(), that is the constructor and
\* onOpen
OpenModal ==
    /\ ~modal.isOpen
    /\ modal.instance < MaxOpens
    /\ LET i == modal.instance + 1
           first == IF modal.class = AISearchModal
                    THEN Listener("triggerChatListener", i)
                    ELSE Listener("keyListener", i)
       IN  /\ modal' = [modal EXCEPT !.instance = i, !.isOpen = TRUE,
                                     !.mode = "search", !.chat = FALSE]
           /\ dom' = [dom EXCEPT !.keydown = AddListener(@, first),
                                 !.answer = <<"press shift enter to generate answer">>]
    /\ UNCHANGED <<indexerVars, queryVars, config, suspended, pending>>

\* onClose
CloseModal ==
    /\ modal.isOpen
    /\ LET i == modal.instance
       IN  /\ modal' = [modal EXCEPT !.isOpen = FALSE]
           /\ dom' = IF modal.class = AISearchModal
                     THEN [dom EXCEPT !.keydown =
                            RemoveListener(
                                RemoveListener(@, Listener("chatSendListener", i)),
                                Listener("triggerChatListener", i))]
                     ELSE [dom EXCEPT !.live = @ \ {modal.typedInstance[i]},
                                      !.keydown =
                                        RemoveListener(@, KeyListenerField(modal.class, i))]
    /\ UNCHANGED <<indexerVars, queryVars, config, suspended, pending>>

\* if (this.typedInstance) this.typedInstance.destroy()
Destroyed(st, inst) == [st EXCEPT !.dom.live = @ \ {st.modal.typedInstance[inst]}]

\* src/main.ts 170-193: the listener types the text of the input; without an
\* open modal there is no answer element and the listener throws
keyListener0(l, st, n) ==
    LET s1 == Destroyed(st, l.inst)
        t == [n |-> n, inst |-> l.inst, text |-> <<"input", n>>, el |-> st.modal.instance]
    IN  IF ~st.modal.isOpen THEN s1
        ELSE [s1 EXCEPT !.dom.live = @ \cup {t}, !.dom.answer = t.text,
                        !.modal.typedInstance[l.inst] = t]

\* src/src/main.ts 209-227: the listener up to await generativeSearch(...)
keyListener(l, st, n) ==
    IF ~st.modal.isOpen THEN Destroyed(st, l.inst)
    ELSE [Destroyed(st, l.inst) EXCEPT
            !.dom.answer = <<"Thinking...">>,
            !.pending = @ \cup {[n |-> n, inst |-> l.inst]},
            !.modal.raced = @ \/ st.pending # {}]

\* src/src/main.ts 762-784
triggerChatListener(l, st) ==
    [st EXCEPT !.modal.mode = "ai", !.modal.chat = TRUE,
               !.dom.keydown = AddListener(RemoveListener(@, l),
                                           Listener("chatSendListener", l.inst))]

\* src/src/main.ts 747-755: typed says that the chat input is not empty
chatSendListener(l, st, typed) ==
    IF typed THEN [st EXCEPT !.modal.messages = @ + 1] ELSE st

Handle(l, st, n, typed) ==
    CASE l.fn = "keyListener" /\ st.modal.class = MagicSearchModal0 -> keyListener0(l, st, n)
      [] l.fn = "keyListener" /\ st.modal.class # MagicSearchModal0 -> keyListener(l, st, n)
      [] l.fn = "triggerChatListener" -> triggerChatListener(l, st)
      [] l.fn = "chatSendListener" -> chatSendListener(l, st, typed)

\* the event runs the listeners that were registered when it was dispatched
\* and have not been removed since
RECURSIVE Dispatch(_, _, _, _)
Dispatch(ls, st, n, typed) ==
    IF ls = <<>> THEN st
    ELSE LET l == Head(ls)
             registered == \E m \in 1..Len(st.dom.keydown) : st.dom.keydown[m] = l
         IN  Dispatch(Tail(ls), IF registered THEN Handle(l, st, n, typed) ELSE st,
                      n, typed)

\* the user presses shift+Enter
ShiftEnter ==
    /\ modal.asks < MaxAsks
    /\ \E typed \in BOOLEAN :
        LET n == modal.asks + 1
            st == Dispatch(dom.keydown,
                           [modal |-> [modal EXCEPT !.asks = n], dom |-> dom,
                            pending |-> pending],
                           n, typed)
        IN  /\ modal' = st.modal
            /\ dom' = st.dom
            /\ pending' = st.pending
    /\ UNCHANGED <<indexerVars, queryVars, config, suspended>>

\* src/src/main.ts 711-725: a click on the back button of the chat
BackButton ==
    /\ modal.class = AISearchModal
    /\ modal.isOpen
    /\ modal.chat
    /\ modal' = [modal EXCEPT !.chat = FALSE]
    /\ dom' = [dom EXCEPT !.keydown =
                    AddListener(
                        RemoveListener(@, Listener("chatSendListener", modal.instance)),
                        Listener("triggerChatListener", modal.instance))]
    /\ UNCHANGED <<indexerVars, queryVars, config, suspended, pending>>

\* src/src/main.ts 222-233: generativeSearch returns to the listener, which
\* starts a Typed on the answer element; the element shows what the
\* animations that run on it write.  When generativeSearch throws, or the
\* modal has been closed and there is no answer element, the listener ends
\* with an error.
AnswerArrives ==
    \E a \in pending :
        /\ pending' = pending \ {a}
        /\ \/ /\ modal.isOpen
              /\ LET t == [n |-> a.n, inst |-> a.inst, text |-> <<"answer", a.n>>,
                           el |-> modal.instance]
                     live == dom.live \cup {t}
                 IN  /\ modal' = [modal EXCEPT !.typedInstance[a.inst] = t]
                     /\ \E shown \in {x \in live : x.el = modal.instance} :
                            dom' = [dom EXCEPT !.live = live, !.answer = shown.text]
           \/ UNCHANGED <<modal, dom>>
        /\ UNCHANGED <<indexerVars, queryVars, config, suspended>>

\* the plugin has been loaded in one of its versions
ModalInit ==
    /\ IndexedNotes
    /\ QueryIdle
    /\ config = Configured
    /\ suspended = NoPass
    /\ modal \in {[NoModal EXCEPT !.class = c] : c \in Classes}
    /\ dom = NoDom
    /\ pending = {}

ModalNext ==
    \/ OpenModal
    \/ CloseModal
    \/ ShiftEnter
    \/ BackButton
    \/ AnswerArrives

ModalSpec == ModalInit /\ [][ModalNext]_vars

(***************************************************************************)
(* Vocabulary of the properties                                            *)
(***************************************************************************)
StoredPaths == {d.path : d \in document}
RowOf(p) == CHOOSE d \in document : d.path = p

\* no call of this pass has failed
NoFailure == \A n \in 1..Len(log) : log[n].ok

\* the calls of this pass that were issued for file number i
FileLog(i) == SelectSeq(log, LAMBDA e : e.idx = i)
Ops(calls) == [n \in 1..Len(calls) |-> calls[n].op]

\* positions of the log that hold a failed call op
FailedAt(op) == {n \in 1..Len(log) : log[n].op = op /\ ~log[n].ok}

\* file p is stored with the checksum of its body and exactly its paragraphs
Indexed(p) ==
    /\ p \in StoredPaths
    /\ RowOf(p).checksum = Checksum(vault[p])
    /\ ContentsOf(RowOf(p).id) = Paragraphs(vault[p])

\* the pass has returned
Returned == pc = "returned"

\* the sections of document id that were stored before this pass started
OldSectionsOf(id) == SelectSeq(SectionsOf(id), LAMBDA r : r.old)

\* the calls of a reindex of a file with body md, in order
FullReindex(md, hadRow) ==
    <<"lookup", "read">> \o (IF hadRow THEN <<"deleteSections">> ELSE <<>>)
        \o <<"upsert">>
        \o [n \in 1..(2 * Len(Paragraphs(md))) |->
                IF n % 2 = 1 THEN "embed" ELSE "insert"]
        \o <<"setChecksum">>

(***************************************************************************)
(* C1  Convergence: after a pass in which no call fails, the stored paths  *)
(* are the scanned paths and every stored document has the checksum of     *)
(* its body, public = membership in publicDirs and, as sections, the       *)
(* paragraphs of its body in source order.                                 *)
(***************************************************************************)
C1_Convergence ==
    (Returned /\ NoFailure) =>
        /\ StoredPaths = Scanned
        /\ \A p \in Scanned :
            /\ Indexed(p)
            /\ RowOf(p).public = isFileInDirectories(p, publicDirs)

(***************************************************************************)
(* C2  Checksum sentinel: in every reachable state a stored document       *)
(* with a non-null checksum has, as sections, the paragraphs of the body   *)
(* that has this checksum.                                                 *)
(***************************************************************************)
C2_ChecksumSentinel ==
    \A d \in document :
        d.checksum # NULL =>
            \E c \in Contents :
                /\ d.checksum = Checksum(c)
                /\ ContentsOf(d.id) = Paragraphs(c)

IsPrefix(a, b) == Len(a) <= Len(b) /\ SubSeq(b, 1, Len(a)) = a

\* the loop is done with file number i
Finished(i) == i < idx \/ pc \notin FilePcs

AllOk(calls) == \A n \in 1..Len(calls) : calls[n].ok

(***************************************************************************)
(* C3  Crash safety: a file for which a section insert failed is stored    *)
(* with a null checksum for the rest of the pass and when it returns; on   *)
(* the next pass the file is neither Unchanged nor AccessChanged: its      *)
(* sections are deleted and it is reindexed in full.                       *)
(***************************************************************************)
C3_CrashSafety ==
    /\ \A n \in FailedAt("insert") :
        /\ files[log[n].idx] \in StoredPaths
        /\ RowOf(files[log[n].idx]).checksum = NULL
    /\ \A i \in 1..Len(files) :
        files[i] \in hist.prevInsertFailed =>
            /\ IsPrefix(Ops(FileLog(i)), FullReindex(vault[files[i]], TRUE))
            /\ (Finished(i) /\ AllOk(FileLog(i))) =>
                    Ops(FileLog(i)) = FullReindex(vault[files[i]], TRUE)

C3_Witness ==
    /\ Returned
    /\ \E i \in 1..Len(files) :
        /\ files[i] \in hist.prevInsertFailed
        /\ Ops(FileLog(i)) = FullReindex(vault[files[i]], TRUE)
        /\ AllOk(FileLog(i))

(***************************************************************************)
(* C4  No partial commit, as stated: after the embedding request for a     *)
(* section of a file failed, no later call is issued for the file in the   *)
(* pass, none of the sections inserted earlier in that reindex remains in  *)
(* the store, and the stored checksum is null.                             *)
(***************************************************************************)
NewSectionsOf(id) == SelectSeq(SectionsOf(id), LAMBDA r : ~r.old)

C4_NoPartialCommit ==
    \A n \in FailedAt("embed") :
        /\ \A m \in (n + 1)..Len(log) : log[m].idx # log[n].idx
        /\ files[log[n].idx] \in StoredPaths
        /\ RowOf(files[log[n].idx]).checksum = NULL
        /\ NewSectionsOf(RowOf(files[log[n].idx]).id) = <<>>

(***************************************************************************)
(* C4 (amended)  After the embedding request for section k of a file       *)
(* failed, no later call is issued for the file in the pass, the stored    *)
(* checksum is null, and the file's sections are the k - 1 sections that   *)
(* were inserted before the failure, which stay in the store.              *)
(***************************************************************************)
C4_AbortKeepsEarlierSections ==
    \A n \in FailedAt("embed") :
        /\ \A m \in (n + 1)..Len(log) : log[m].idx # log[n].idx
        /\ files[log[n].idx] \in StoredPaths
        /\ RowOf(files[log[n].idx]).checksum = NULL
        /\ OldSectionsOf(RowOf(files[log[n].idx]).id) = <<>>
        /\ ContentsOf(RowOf(files[log[n].idx]).id) =
                SubSeq(Paragraphs(vault[files[log[n].idx]]), 1, log[n].k - 1)

C4_Witness ==
    /\ Returned
    /\ \E n \in FailedAt("embed") :
        /\ log[n].k = 2
        /\ Len(SectionsOf(RowOf(files[log[n].idx]).id)) = 1

(***************************************************************************)
(* C5  Atomic section replacement: the sections of a stored document are   *)
(* never of two versions (bodies) nor a mix of sections of before this     *)
(* pass and of this pass; while a file is reindexed its sections are       *)
(* exactly the ones inserted so far; after its checksum is set they are    *)
(* all of this pass and of the current body.                               *)
(***************************************************************************)
C5_AtomicReplacement ==
    /\ \A d \in document :
        LET rows == SectionsOf(d.id)
        IN  \A m, n \in 1..Len(rows) :
                /\ rows[m].ver = rows[n].ver
                /\ rows[m].old = rows[n].old
    /\ pc \in {"embed", "insert", "setChecksum"} =>
        LET rows == SectionsOf(doc.id)
        IN  /\ Len(rows) = k - 1
            /\ \A n \in 1..Len(rows) : ~rows[n].old /\ rows[n].ver = markdown
    /\ \A n \in 1..Len(log) :
        (log[n].op = "setChecksum" /\ log[n].ok) =>
            LET rows == SectionsOf(RowOf(files[log[n].idx]).id)
            IN  \A m \in 1..Len(rows) :
                    ~rows[m].old /\ rows[m].ver = vault[files[log[n].idx]]

C5_Witness ==
    /\ pc = "insert"
    /\ k = 1
    /\ file \in hist.changed
    /\ vault[file] = Str2
    /\ \E n \in 1..Len(log) : log[n].op = "deleteSections" /\ log[n].idx = idx

C9_Idempotence ==
    (Returned /\ hist.prevClean /\ NoFailure) =>
        embeddingResult = [successCount |-> Len(files), updatedCount |-> 0,
                           errorCount |-> 0, deleteCount |-> 0]

C9_Witness ==
    /\ Returned
    /\ hist.prevClean
    /\ NoFailure
    /\ Len(files) = 2

(***************************************************************************)
(* C6  Null-checksum-first ordering: for every file that is reindexed,     *)
(* the upsert that writes checksum = null has succeeded before any of the  *)
(* file's sections is deleted, embedded or inserted.                       *)
(***************************************************************************)
SectionOps == {"deleteSections", "embed", "insert"}

C6_NullChecksumFirst ==
    \A n \in 1..Len(log) :
        log[n].op \in SectionOps =>
            \E m \in 1..(n - 1) :
                log[m].op = "upsert" /\ log[m].idx = log[n].idx /\ log[m].ok

(***************************************************************************)
(* C7  Cancellation is resumable: when the pass before was abandoned at a  *)
(* suspension point, a pass without failures leaves every scanned file     *)
(* with the checksum of its body and exactly its paragraphs as sections.   *)
(***************************************************************************)
C7_ResumableAfterAbort ==
    (Returned /\ hist.prevAborted /\ NoFailure) =>
        \A p \in Scanned : Indexed(p)

StartRow(p) ==
    IF \E d \in hist.start : d.path = p
    THEN CHOOSE d \in hist.start : d.path = p
    ELSE NoRow

\* the three facts the branch of lines 63-104 depends on, as they were when the
\* pass started
HadRow(p) == StartRow(p) # NoRow
SameChecksum(p) == HadRow(p) /\ StartRow(p).checksum = Checksum(vault[p])
SamePublic(p) == HadRow(p) /\ StartRow(p).public = isFileInDirectories(p, publicDirs)

\* the files of the scan whose calls have all been issued and have all succeeded
Succeeded == {i \in 1..Len(files) : Finished(i) /\ FileLog(i) # <<>> /\ AllOk(FileLog(i))}

\* the files of the scan whose last call was a successful write
Written == {i \in Succeeded :
                FileLog(i)[Len(FileLog(i))].op \in {"updateAccess", "setChecksum"}}

AccessOnly == <<"lookup", "read", "updateAccess">>

(***************************************************************************)
(* C11  Access-only change: for a file stored with the checksum of its     *)
(* body but with another public flag than its membership in publicDirs,    *)
(* the pass issues the lookup, the read and one write, the update of       *)
(* public, and no section delete, insert or embedding; the stored row      *)
(* afterwards differs from the one before in public only (same id, same    *)
(* checksum), its sections are the ones of before the pass, and the file   *)
(* is counted once in successCount and once in updatedCount.               *)
(***************************************************************************)
C11_AccessOnlyChange ==
    /\ \A i \in 1..Len(files) :
        (SameChecksum(files[i]) /\ ~SamePublic(files[i])) =>
            /\ IsPrefix(Ops(FileLog(i)), AccessOnly)
            /\ NewSectionsOf(StartRow(files[i]).id) = <<>>
            /\ i \in Succeeded =>
                /\ Ops(FileLog(i)) = AccessOnly
                /\ i \in Written
                /\ RowOf(files[i]) =
                        [StartRow(files[i]) EXCEPT
                            !.public = isFileInDirectories(files[i], publicDirs)]
    /\ embeddingResult.successCount = Cardinality(Succeeded)
    /\ embeddingResult.updatedCount = Cardinality(Written)

C11_Witness ==
    /\ Returned
    /\ \E i \in 1..Len(files) :
        /\ SameChecksum(files[i])
        /\ ~SamePublic(files[i])
        /\ i \in Written
        /\ SectionsOf(RowOf(files[i]).id) # <<>>

\* the rows of the pass's start whose file is still in the vault with the body
\* the row has the checksum of: the indexed, unchanged documents
IndexedAtStart ==
    {d \in hist.start : vault[d.path] # Absent /\ d.checksum = Checksum(vault[d.path])}

\* the calls of this pass for the file with path p
PathLog(p) == SelectSeq(log, LAMBDA e : e.idx # 0 /\ files[e.idx] = p)

\* row d is stored as it was when the pass started, but for its public flag, and
\* no section of it was deleted or inserted
OnlyAccessTouched(d) ==
    /\ \E d2 \in document : d2 = [d EXCEPT !.public = d2.public]
    /\ NewSectionsOf(d.id) = <<>>
    /\ \A n \in 1..Len(PathLog(d.path)) : PathLog(d.path)[n].op \notin SectionOps

(***************************************************************************)
(* C12, as stated  Directory toggling touches only the access flag: an     *)
(* indexed, unchanged document keeps its record, its checksum and its      *)
(* sections through the next pass, whichever of the excluded and public    *)
(* sets its directory was moved into or out of; at most public changes.    *)
(***************************************************************************)
C12_TogglingTouchesOnlyAccess ==
    \A d \in IndexedAtStart : OnlyAccessTouched(d)

(***************************************************************************)
(* C12 (amended)  An indexed, unchanged document is scanned exactly when   *)
(* no excludeDirs entry is a prefix of its path.  When it is scanned, the  *)
(* pass changes at most its public flag, which after a successful pass is  *)
(* its membership in publicDirs.  When its directory was moved into the    *)
(* excluded set, no call is issued for it in the per-document loop, its    *)
(* record is removed by a dangling delete and by nothing else, and after   *)
(* a pass without failures the record is gone.                             *)
(***************************************************************************)
C12_ExclusionDeletesRecord ==
    \A d \in IndexedAtStart :
        /\ d.path \in Scanned <=> ~isFileInDirectories(d.path, excludeDirs)
        /\ IF d.path \in Scanned
           THEN /\ OnlyAccessTouched(d)
                /\ (Returned /\ NoFailure) =>
                        RowOf(d.path).public = isFileInDirectories(d.path, publicDirs)
           ELSE /\ PathLog(d.path) = <<>>
                /\ d \in document \/ d.path \notin StoredPaths
                /\ d.path \notin StoredPaths =>
                        \E n \in 1..Len(log) : log[n].op = "deleteDangling" /\ log[n].ok
                /\ (Returned /\ NoFailure) => d.path \notin StoredPaths

C12_Witness ==
    /\ Returned
    /\ NoFailure
    /\ \E d \in IndexedAtStart :
        /\ isFileInDirectories(d.path, excludeDirs)
        /\ d.path \notin StoredPaths
    /\ \E d \in IndexedAtStart :
        /\ d.path \in Scanned
        /\ RowOf(d.path).public # d.public

\* the rows of the pass's start whose path is not among the scanned files
DanglingAtStart == {d \in hist.start : d.path \notin Scanned}

(***************************************************************************)
(* C13  Deletion propagation: a pass without failures deletes the record   *)
(* of every stored path that is absent from its scan and returns their     *)
(* number as deleteCount.  A record comes into the store only by the       *)
(* upsert of the pass that scans its file, so a deleted record stays       *)
(* absent until its file is scanned again; a scanned file without a        *)
(* record is indexed as New: lookup, read, upsert, embed and insert of     *)
(* every section, set checksum, and no section delete.                     *)
(***************************************************************************)
C13_Deleted ==
    (Returned /\ NoFailure) =>
        /\ \A d \in DanglingAtStart : d.path \notin StoredPaths
        /\ embeddingResult.deleteCount = Cardinality(DanglingAtStart)

C13_New ==
    \A i \in 1..Len(files) :
        ~HadRow(files[i]) =>
            /\ IsPrefix(Ops(FileLog(i)), FullReindex(vault[files[i]], FALSE))
            /\ i \in Succeeded =>
                /\ Ops(FileLog(i)) = FullReindex(vault[files[i]], FALSE)
                /\ Indexed(files[i])

C13_DeletionPropagation ==
    /\ [](C13_Deleted /\ C13_New)
    /\ [][\A p \in Paths :
            (p \notin StoredPaths /\ p \in StoredPaths') =>
                (pc = "upsert" /\ file = p)]_vars

\* q/y was indexed, deleted and, after it reappeared, indexed again as New
C13_Witness ==
    /\ Returned
    /\ NoFailure
    /\ PathA \in StoredPaths
    /\ RowOf(PathA).id = 1
    /\ ~HadRow(PathB)
    /\ Indexed(PathB)
    /\ RowOf(PathB).id = 3

\* the calls of this pass's cleanup that delete a dangling document
DanglingDeletes == SelectSeq(log, LAMBDA e : e.op = "deleteDangling")

\* the listing of the stored documents has succeeded
ListOk == \E n \in 1..Len(log) : log[n].op = "list" /\ log[n].ok

(***************************************************************************)
(* C14  Dangling cleanup: a document that was stored when the pass         *)
(* started, or was created in it, and whose path is scanned stays stored   *)
(* through the pass, also when a call for it failed; the cleanup's calls   *)
(* come after every call of the per-document loop, when every scanned      *)
(* file has been processed; a dangling delete is issued only for a         *)
(* listed path that is not scanned, and once the cleanup has run one was   *)
(* issued for each stored path that is not scanned.                        *)
(***************************************************************************)
C14_DanglingCleanup ==
    LET scanned == Scanned
        everyFileLogged == \A i \in 1..Len(files) : FileLog(i) # <<>>
        listOk == ListOk
        deletes == Len(DanglingDeletes)
        dangling == Cardinality(DanglingAtStart)
    IN  /\ \A d \in hist.start :
            d.path \in scanned => \E d2 \in document : d2.id = d.id /\ d2.path = d.path
        /\ \A n \in 1..Len(log) :
            (log[n].op = "upsert" /\ log[n].ok) => files[log[n].idx] \in StoredPaths
        /\ \A n \in 1..Len(log) :
            log[n].idx = 0 =>
                /\ n < Len(log) => log[n + 1].idx = 0
                /\ everyFileLogged
                /\ pc \notin FilePcs
                /\ log[n].op = "deleteDangling" => listOk
        /\ pc = "deleteDangling" =>
            /\ existingDocuments[j] \in document
            /\ existingDocuments[j].path \notin scanned
        /\ deletes <= dangling
        /\ (pc \in {"return", "returned"} /\ listOk) => deletes = dangling

C14_Witness ==
    /\ Returned
    /\ \E i \in 1..Len(files) :
        /\ HadRow(files[i])
        /\ ~AllOk(FileLog(i))
        /\ files[i] \in StoredPaths
    /\ \E n \in 1..Len(DanglingDeletes) : DanglingDeletes[n].ok

(***************************************************************************)
(* C15  deleteCount is the number of deleted records: when the pass has    *)
(* returned, deleteCount is the number of dangling deletes that            *)
(* succeeded, which is the number of records stored at the pass's start    *)
(* that are no longer stored; a dangling delete that failed is counted in  *)
(* errorCount and not in deleteCount.                                      *)
(***************************************************************************)
C15_DeleteCountIsDeleted ==
    Returned =>
        /\ embeddingResult.deleteCount =
                Cardinality({n \in 1..Len(DanglingDeletes) : DanglingDeletes[n].ok})
        /\ embeddingResult.deleteCount =
                Cardinality({d \in hist.start : d.path \notin StoredPaths})

\* the calls of this pass's cleanup that failed
FailedCleanup == {n \in 1..Len(log) : log[n].idx = 0 /\ ~log[n].ok}

\* the scanned files a call of this pass failed for
FailedFiles == {i \in 1..Len(files) : ~AllOk(FileLog(i))}

(***************************************************************************)
(* C16  Cleanup failures are counted, not fatal: errorCount is the number  *)
(* of files a call failed for plus the number of failed cleanup calls.     *)
(* After the listing failed no dangling delete is issued, every record of  *)
(* the pass's start is still stored, and the pass is at its return.        *)
(* After a dangling delete failed the cleanup goes on: the pass does not   *)
(* throw, and when it is at its return a delete has been issued for every  *)
(* stored path that is not scanned.                                        *)
(***************************************************************************)
C16_CleanupFailuresCounted ==
    LET failedCleanup == FailedCleanup
        deletes == Len(DanglingDeletes)
        dangling == Cardinality(DanglingAtStart)
    IN  /\ pc # "idle" =>
            embeddingResult.errorCount =
                Cardinality(FailedFiles) + Cardinality(failedCleanup)
        /\ \A n \in failedCleanup :
            /\ pc \in {"deleteDangling", "return", "returned"}
            /\ log[n].op = "list" =>
                /\ deletes = 0
                /\ \A d \in hist.start : d \in document \/ d.path \in Scanned
                /\ pc \in {"return", "returned"}
            /\ log[n].op = "deleteDangling" =>
                /\ pc = "deleteDangling" => deletes < dangling
                /\ pc \in {"return", "returned"} => deletes = dangling

\* the delete of the first of two dangling documents failed, the second one
\* was deleted, and the pass has returned
C16_Witness ==
    /\ Returned
    /\ Len(DanglingDeletes) = 2
    /\ ~DanglingDeletes[1].ok
    /\ DanglingDeletes[2].ok
    /\ Cardinality(document) = 1

\* the embedding and insert calls of this pass for file number i
SectionCalls(i) == SelectSeq(FileLog(i), LAMBDA e : e.op \in {"embed", "insert"})

\* the number of sections inserted for file number i in this pass
Inserted(i) == Len(SelectSeq(FileLog(i), LAMBDA e : e.op = "insert" /\ e.ok))

\* a call after which the loop is done with its file
Terminal(e) == ~e.ok \/ e.op \in {"read", "updateAccess", "setChecksum"}

(***************************************************************************)
(* C17  Sequential ordering: the calls of the per-document loop are        *)
(* issued file by file in scan order, the first call for a file only       *)
(* after a call that ended the file before it, and no call for a file      *)
(* after one for it failed; for a file that had a record the section       *)
(* delete has succeeded before any section is inserted; the sections are   *)
(* embedded and inserted alternately, section by section in source         *)
(* order, each call only after the one before succeeded; the stored        *)
(* sections of a file being reindexed are the paragraphs inserted so far;  *)
(* set-checksum is the file's last call and follows the insert of the      *)
(* last section.                                                           *)
(***************************************************************************)
C17_SequentialOrdering ==
    /\ \A n \in 1..(Len(log) - 1) :
        /\ log[n].idx = 0 => log[n + 1].idx = 0
        /\ log[n].idx # 0 =>
            /\ log[n + 1].idx \in {0, log[n].idx, log[n].idx + 1}
            /\ log[n + 1].idx = 0 => log[n].idx = Len(files)
            /\ log[n + 1].idx # log[n].idx => Terminal(log[n])
            /\ (~log[n].ok \/ log[n].op \in {"updateAccess", "setChecksum"}) =>
                    log[n + 1].idx # log[n].idx
    /\ Len(log) > 0 => log[1].idx = IF files = <<>> THEN 0 ELSE 1
    /\ \A i \in 1..Len(files) :
        LET fileLog == FileLog(i)
            sectionCalls == SectionCalls(i)
            paragraphs == Paragraphs(vault[files[i]])
            inserted == Inserted(i)
        IN  /\ \A n \in 1..Len(fileLog) :
                /\ (fileLog[n].op = "insert" /\ HadRow(files[i])) =>
                        \E m \in 1..(n - 1) :
                            fileLog[m].op = "deleteSections" /\ fileLog[m].ok
                /\ fileLog[n].op = "setChecksum" =>
                        /\ n = Len(fileLog)
                        /\ inserted = Len(paragraphs)
            /\ \A m \in 1..Len(sectionCalls) :
                /\ sectionCalls[m].op = IF m % 2 = 1 THEN "embed" ELSE "insert"
                /\ sectionCalls[m].k = (m + 1) \div 2
                /\ m < Len(sectionCalls) => sectionCalls[m].ok
            /\ (\E n \in 1..Len(fileLog) :
                    fileLog[n].op = "upsert" /\ fileLog[n].ok) =>
                        ContentsOf(RowOf(files[i]).id) =
                            SubSeq(paragraphs, 1, inserted)

C17_Witness ==
    /\ Returned
    /\ Len(files) = 2
    /\ vault[files[1]] = Str1
    /\ Ops(FileLog(1)) = FullReindex(Str1, TRUE)
    /\ AllOk(FileLog(1))
    /\ Ops(FileLog(2)) = FullReindex(vault[files[2]], FALSE)

\* the calls of a file that is stored with the checksum and the public flag it has
NoAction == <<"lookup", "read">>

\* the calls the claim gives a file, by the three facts of the pass's start
PathOf(p) ==
    CASE SameChecksum(p) /\ SamePublic(p) -> NoAction
      [] SameChecksum(p) /\ ~SamePublic(p) -> AccessOnly
      [] HadRow(p) /\ ~SameChecksum(p) -> FullReindex(vault[p], TRUE)
      [] ~HadRow(p) -> FullReindex(vault[p], FALSE)

(***************************************************************************)
(* C18  Classification is total and exclusive: the calls issued for a      *)
(* scanned file are those of exactly one of four paths, which the three    *)
(* facts (a record exists, its checksum is the current one, its public     *)
(* flag is the current one) decide.  Unchanged: lookup and read, and the   *)
(* record stays as it was.  AccessChanged: one more call, the update of    *)
(* public.  Stale (a record with another checksum, null included):         *)
(* section delete, then upsert, embed and insert of every section, set     *)
(* checksum.  New (no record): the same without the section delete.        *)
(***************************************************************************)
C18_Classification ==
    \A i \in 1..Len(files) :
        LET fileLog == FileLog(i)
            ops == Ops(FileLog(i))
            path == PathOf(files[i])
        IN  /\ IsPrefix(ops, path)
            /\ (Finished(i) /\ fileLog # <<>> /\ AllOk(fileLog)) => ops = path
            /\ (Finished(i) /\ fileLog # <<>> /\ ops # path) => ~AllOk(fileLog)
            /\ (SameChecksum(files[i]) /\ SamePublic(files[i])) =>
                    /\ StartRow(files[i]) \in document
                    /\ NewSectionsOf(StartRow(files[i]).id) = <<>>

\* in one pass a file stored with a null checksum is reindexed as Stale and a
\* file stored with its checksum and public flag is left alone
C18_Witness ==
    /\ Returned
    /\ NoFailure
    /\ \E i \in 1..Len(files) :
        /\ HadRow(files[i])
        /\ StartRow(files[i]).checksum = NULL
        /\ Ops(FileLog(i)) = FullReindex(vault[files[i]], TRUE)
    /\ \E i \in 1..Len(files) :
        /\ SameChecksum(files[i])
        /\ SamePublic(files[i])
        /\ Ops(FileLog(i)) = NoAction

\* C19: at every entry point the moderation request is the first request of a
\* query and carries the trimmed query; when the moderation provider flags the
\* query, the handler ends there: the embedding provider, the store and the chat
\* provider are not called, and the caller gets the error "Flagged content".
\* Any other request is made only for a query the moderation passed.
C19_ModerationGate ==
    /\ moderation = "flagged" =>
        /\ qpc = "done"
        /\ requests = <<Request("createModeration", Trim(query))>>
        /\ reply = [NoReply EXCEPT !.error = "Flagged content"]
    /\ \A n \in 1..Len(requests) :
        requests[n].api # "createModeration" =>
            /\ n > 1
            /\ requests[1] = Request("createModeration", Trim(query))
            /\ moderation = "clean"

C19_Witness ==
    /\ entry = "MagicSearchModal.ask"
    /\ query = <<" ", "h", NL, "i", " ">>
    /\ moderation = "flagged"
    /\ qpc = "done"
    /\ requests # <<>>
    /\ reply.error = "Flagged content"

\* the tokenizer count of the n-th ranked section
TokensOf(n) == encodedLength(documentSections[n].content)

\* t1 + ... + tn
RECURSIVE PrefixTokens(_)
PrefixTokens(n) == IF n = 0 THEN 0 ELSE PrefixTokens(n - 1) + TokensOf(n)

\* the largest k with t1 + ... + tk below the budget
LastAdmitted ==
    CHOOSE n \in 0..Len(documentSections) :
        /\ PrefixTokens(n) < TokenBudget
        /\ \A m \in 0..Len(documentSections) : PrefixTokens(m) < TokenBudget => m <= n

\* sections 1..n in ranked order, each trimmed and followed by the separator
RECURSIVE ContextOf(_)
ContextOf(n) ==
    IF n = 0 THEN <<>>
    ELSE ContextOf(n - 1) \o Trim(documentSections[n].content) \o <<NL, "-", "-", "-", NL>>

\* C20: once generativeSearch has assembled the context, it is exactly sections
\* 1..k in ranked order, k the largest index with t1 + ... + tk < 1500: section
\* k + 1, if there is one, brings the total to 1500 or more and is left out
\* together with every later section; the chat request carries this context.
C20_BudgetLaw ==
    /\ qpc = "chat" =>
        /\ contextText = ContextOf(LastAdmitted)
        /\ \A n \in 1..LastAdmitted : PrefixTokens(n) < TokenBudget
        /\ LastAdmitted < Len(documentSections) =>
                /\ PrefixTokens(LastAdmitted + 1) >= TokenBudget
                /\ tokenCount = PrefixTokens(LastAdmitted + 1)
        /\ LastAdmitted = Len(documentSections) => tokenCount = PrefixTokens(LastAdmitted)
    /\ \A n \in 1..Len(requests) :
        requests[n].api = "createChatCompletion" =>
            requests[n].input = ContextOf(LastAdmitted)

C20_Witness ==
    /\ qpc = "chat"
    /\ Len(documentSections) = 3
    /\ \A n \in 1..3 : TokensOf(n) = 600
    /\ contextText = ContextOf(2)
    /\ contextText # ContextOf(3)
    /\ tokenCount = 1800

\* the calls of the query so far that went to api
RequestsTo(api) == SelectSeq(requests, LAMBDA r : r.api = api)

\* the match call of the query has been made
Matched == RequestsTo("match_document_sections") # <<>>

\* C21: when the match call returns an error, semanticSearch throws "Failed to
\* match document sections": the match call is the last call of the query, no
\* section and no answer is returned.  When the match call succeeds with zero
\* rows, semanticSearch returns the empty list: no document lookup is issued and
\* no error of the search is raised; the search entry points reply with the
\* empty list, the ask entry points go on to the prompt.
C21_RetrievalErrorOrEmpty ==
    Matched =>
        /\ matchResponse.error =>
            /\ qpc = "done"
            /\ requests[Len(requests)].api = "match_document_sections"
            /\ "Failed to match document sections" \in {reply.error, reply.notice}
            /\ reply.sections = <<>>
            /\ reply.answer = ""
            /\ documentSections = <<>>
        /\ (~matchResponse.error /\ matchResponse.data = <<>>) =>
            /\ RequestsTo("document") = <<>>
            /\ documentSections = <<>>
            /\ "Failed to match document sections" \notin {reply.error, reply.notice}
            /\ entry \notin Generative => (qpc = "done" /\ reply = NoReply)
            /\ entry \in Generative => qpc \in {"assemble", "chat", "done"}

C21_Witness ==
    /\ entry = "semantic-search"
    /\ Matched
    /\ ~matchResponse.error
    /\ matchResponse.data = <<>>
    /\ qpc = "done"
    /\ reply = NoReply

\* semanticSearch has returned its sections
SearchSucceeded ==
    /\ Matched
    /\ ~matchResponse.error
    /\ hydrated = Len(matchResponse.data)

\* C22: when semanticSearch succeeds it returns the rows of the match call, as
\* many and in the same order, each with the field document holding the id and
\* the path of the stored document whose id is the row's document_id; one
\* lookup was issued for each row; the search entry points reply with exactly
\* this list.
C22_HydrationPreservesRanking ==
    SearchSucceeded =>
        /\ Len(documentSections) = Len(matchResponse.data)
        /\ Len(RequestsTo("document")) = Len(matchResponse.data)
        /\ \A n \in 1..Len(documentSections) :
            /\ documentSections[n].document_id = matchResponse.data[n].document_id
            /\ documentSections[n].content = matchResponse.data[n].content
            /\ \E d \in document :
                /\ d.id = matchResponse.data[n].document_id
                /\ documentSections[n].document = [id |-> d.id, path |-> d.path]
        /\ entry \notin Generative =>
            /\ qpc = "done"
            /\ reply = [NoReply EXCEPT !.sections = documentSections]

C22_Witness ==
    /\ entry = "AISearchModal.getSuggestions"
    /\ qpc = "done"
    /\ SearchSucceeded
    /\ Len(reply.sections) = 3
    /\ reply.sections[1].document.path = PathB
    /\ reply.sections[2].document.path = PathA
    /\ reply.sections[3].document.path = PathB

\* the chat completion of the query has come back
ChatReturned ==
    /\ qpc = "done"
    /\ RequestsTo("createChatCompletion") # <<>>
    /\ reply.error # "chat completion request failed"

\* C23: the ask path returns the content of the first choice when the chat
\* completion has a choice with content; when it has no choice, or a first choice
\* without content, the caller gets the no-answer value and no error: the modal
\* types "No answer", the edge function responds with the undefined answer.
C23_NoAnswerSentinel ==
    ChatReturned =>
        IF choices # <<>> /\ choices[1].content # Undefined
        THEN reply = [NoReply EXCEPT !.answer = choices[1].content]
        ELSE /\ reply.error = ""
             /\ reply.answer = IF entry = "MagicSearchModal.ask"
                               THEN "No answer" ELSE Undefined

\* C26: the arguments of the match call are the options of the query's
\* use-case, each argument the value of its own option or, when the option is
\* not set, its own default (0.78, 10, 50); the entry points without options
\* pass the defaults.
C26_IndependentParameters ==
    \A n \in 1..Len(requests) :
        requests[n].api = "match_document_sections" =>
            IF entry \in {"MagicSearchModal.getSuggestions", "MagicSearchModal.ask"}
            THEN requests[n].input =
                    [match_threshold |-> 78, match_count |-> 10, min_content_length |-> 50]
            ELSE /\ requests[n].input.match_threshold =
                        IF options.matchThreshold = Unset THEN 78 ELSE options.matchThreshold
                 /\ requests[n].input.match_count =
                        IF options.matchCount = Unset THEN 10 ELSE options.matchCount
                 /\ requests[n].input.min_content_length =
                        IF options.minContentLength = Unset THEN 50
                        ELSE options.minContentLength

\* prefix is a string prefix of s
IsStringPrefix(prefix, s) == \E m \in 0..Len(s) : SubSeq(s, 1, m) = prefix

\* position of path p in the host's list
HostPosition(p) == CHOOSE n \in 1..Len(ScanOrder) : ScanOrder[n] = p

\* C25: the scan result holds, in the host's order and once each, exactly the
\* markdown files of the vault whose normalized path has no normalized entry of
\* excludeDirs as a string prefix; the scan issues no store or provider call.
C25_ScannerExclusion ==
    pc # "idle" =>
        /\ \A p \in DOMAIN vault :
            p \in Scanned <=>
                /\ vault[p] # Absent
                /\ ~\E d \in excludeDirs : IsStringPrefix(Normalize(d), Normalize(p))
        /\ \A a, b \in 1..Len(files) :
            a < b => HostPosition(files[a]) < HostPosition(files[b])
        /\ log = <<>>
        /\ document = {}
        /\ document_section = <<>>

\* p alone excludes p/x, p//x and pq/x
C25_Witness ==
    /\ pc = "lookup"
    /\ \A p \in DOMAIN vault : vault[p] # Absent
    /\ excludeDirs = {DirP}
    /\ files = <<PathB>>

(***************************************************************************)
(* C28  Count accounting: when a pass has returned, every scanned file is  *)
(* either one whose calls all succeeded or one a call failed for, never    *)
(* both; successCount is the number of the former, so that successCount    *)
(* plus the number of failed files is the number of scanned files;         *)
(* updatedCount is at most successCount; errorCount is the number of       *)
(* failed files plus the number of failed cleanup calls.                   *)
(***************************************************************************)
C28_CountAccounting ==
    Returned =>
        LET succeeded == Succeeded
            failed == FailedFiles
        IN  /\ succeeded \cup failed = 1..Len(files)
            /\ succeeded \cap failed = {}
            /\ embeddingResult.successCount = Cardinality(succeeded)
            /\ embeddingResult.successCount + Cardinality(failed) = Len(files)
            /\ embeddingResult.updatedCount <= embeddingResult.successCount
            /\ embeddingResult.errorCount =
                    Cardinality(failed) + Cardinality(FailedCleanup)

\* a returned pass over two files: one failed, one was written
C28_Witness ==
    /\ Returned
    /\ Len(files) = 2
    /\ Cardinality(FailedFiles) = 1
    /\ embeddingResult.successCount = 1
    /\ embeddingResult.updatedCount = 1
    /\ embeddingResult.errorCount = 1

\* the calls that write to the store or ask the provider for an embedding
WriteOps == {"deleteSections", "upsert", "embed", "insert"}

(***************************************************************************)
(* C29  Lookup failure performs no write: for a file whose lookup failed,  *)
(* the pass issues no section delete, no upsert, no embedding request and  *)
(* no section insert, and the file's record, if it has one, is the one of  *)
(* the pass's start.                                                       *)
(***************************************************************************)
C29_LookupFailureNoWrite ==
    \A n \in FailedAt("lookup") :
        LET i == log[n].idx
        IN  /\ \A m \in 1..Len(log) : log[m].idx = i => log[m].op \notin WriteOps
            /\ \A d \in document : d.path = files[i] => d \in hist.start

\* the stored record of the document of a section that was found
RecordOf(section) == {d \in document : d.id = section.document_id}

(***************************************************************************)
(* C27  No silent partial index: when match_document_sections answers a    *)
(* query, at any point of a running pass, every section of its answer      *)
(* belongs to a document whose stored checksum is not null at that point.  *)
(***************************************************************************)
C27_NoPartialIndex ==
    [][(qpc = "match" /\ ~matchResponse'.error) =>
            \A n \in 1..Len(matchResponse'.data) :
                \A d \in RecordOf(matchResponse'.data[n]) : d.checksum # NULL]_vars

\* the three secrets of the settings are non-empty
SecretsSet == config.supabaseUrl # "" /\ config.supabaseKey # "" /\ config.openaiKey # ""

C30_OverlappingPassesConsistent ==
    (pc = "returned" /\ suspended.pc = "returned") =>
        \A n \in 1..Len(files) : Indexed(files[n])

\* the ids of the stored documents
StoredIds == {d.id : d \in document}

\* every stored section is a section of a stored document
NoOrphan == \A n \in 1..Len(document_section) : document_section[n].document_id \in StoredIds

Stage(api) ==
    CASE api = "createModeration" -> 1
      [] api = "createEmbedding" -> 2
      [] api = "match_document_sections" -> 3
      [] api = "document" -> 4
      [] api = "createChatCompletion" -> 5

\* the errors an ask ends with before its chat completion
EarlyErrors ==
    {"Flagged content", "moderation request failed",
     "Failed to create embedding for question",
     "Failed to match document sections", "fetchDocumentError"}

(***************************************************************************)
(* C32  Ask pipeline staging: the calls of an ask come in the order        *)
(* moderation, query embedding, match, document lookups, chat completion,  *)
(* no stage left out but the lookups of an empty match, each call but the  *)
(* lookups made once at most; the embedding is requested only when the     *)
(* moderation found the query clean, a lookup is made only for a section   *)
(* of a match that succeeded and after the lookups before it succeeded,    *)
(* the chat completion is requested only when every matched section has    *)
(* its document; an ask that ends with a flagged query, a failed           *)
(* moderation or embedding request, a match error or a failed lookup has   *)
(* requested no chat completion, and one that ends without an error has    *)
(* requested exactly one, with the prompt as its single user message.      *)
(***************************************************************************)
C32_AskStaging ==
    entry \in Generative =>
        LET n == Len(requests)
            lookups == Len(RequestsTo("document"))
            chats == RequestsTo("createChatCompletion")
        IN  /\ n > 0 => Stage(requests[1].api) = 1
            /\ \A m \in 1..(n - 1) :
                LET a == Stage(requests[m].api)
                    b == Stage(requests[m + 1].api)
                IN  /\ a <= b
                    /\ a = b => a = 4
                    /\ b <= a + 1 \/ (a = 3 /\ b = 5 /\ matchResponse.data = <<>>)
            /\ RequestsTo("createEmbedding") # <<>> => moderation = "clean"
            /\ lookups > 0 =>
                /\ ~matchResponse.error
                /\ lookups <= Len(matchResponse.data)
                /\ hydrated >= lookups - 1
            /\ chats # <<>> =>
                /\ Matched
                /\ ~matchResponse.error
                /\ lookups = Len(matchResponse.data)
                /\ hydrated = lookups
            /\ (qpc = "done" /\ reply.error \in EarlyErrors) => chats = <<>>
            /\ (qpc = "done" /\ reply.error = "") =>
                /\ Len(chats) = 1
                /\ chats[1].messages = <<[role |-> "user"]>>

\* an ask to the edge function has found two sections, has looked up their
\* documents and has got its answer
C32_Witness ==
    /\ entry = "generative-answer"
    /\ qpc = "done"
    /\ reply.answer = "first"
    /\ Len(requests) = 6
    /\ Len(RequestsTo("document")) = 2

\* a lookup of the query's search has failed
LookupFailed ==
    /\ qpc = "done"
    /\ Matched
    /\ ~matchResponse.error
    /\ hydrated < Len(matchResponse.data)

\* every row of the match is in the list, and has its document
Whole(found) ==
    /\ Len(found) = Len(matchResponse.data)
    /\ \A n \in 1..Len(found) :
        /\ found[n].document # NoDocument
        /\ found[n].document.id = found[n].document_id

(***************************************************************************)
(* C33  Hydration is all-or-nothing, also while the cleanup of a pass      *)
(* deletes documents: a search one of whose lookups failed has made no     *)
(* call after that lookup and ends with an error (a notice in the modal of *)
(* the newer plugin) and without a list or an answer; a list that a search *)
(* entry point replies with, or that the search hands to the assembly of   *)
(* the prompt, has every row of the match, each with the identity of the   *)
(* document it belongs to.                                                 *)
(***************************************************************************)
C33_HydrationAllOrNothing ==
    /\ LookupFailed =>
        /\ requests[Len(requests)].api = "document"
        /\ reply.sections = <<>>
        /\ reply.answer = ""
        /\ reply.error # "" \/ reply.notice # ""
    /\ (qpc = "done" /\ reply.sections # <<>>) => Whole(reply.sections)
    /\ (entry \in Generative /\ qpc = "assemble") => Whole(documentSections)

\* the match returned a section of the note q/y, the cleanup then deleted the
\* note's record, and the lookup of the section's document found no row
C33_Witness ==
    /\ LookupFailed
    /\ hydrated = 1
    /\ documentSections[1].document # NoDocument
    /\ documentSections[2].document_id \notin StoredIds
    /\ \E n \in 1..Len(log) : log[n] = Call("deleteDangling", TRUE)

(***************************************************************************)
(* C34  No empty sections: whatever the body of a note, the paragraphs the *)
(* pass has split it into are trimmed and not empty, the section whose     *)
(* embedding has come back and is about to be inserted is not empty, and   *)
(* no stored section has empty text.                                       *)
(***************************************************************************)
C34_NoEmptySections ==
    /\ \A n \in 1..Len(sections) :
        /\ sections[n] = Trim(sections[n])
        /\ sections[n] # <<>>
    /\ pc = "insert" => sections[k] # <<>>
    /\ \A n \in 1..Len(document_section) : document_section[n].content # <<>>

\* parseYaml throws on the front-matter block of md
ParseFails(md) ==
    LET match == FrontmatterMatch(md)
    IN  match.found /\ match.group # <<>> /\ YamlThrows(match.group)

\* the stored sections of the document with this id, in the order of their insertion
StoredSections(id) ==
    LET rows == SelectSeq(document_section, LAMBDA r : r.document_id = id)
    IN  [n \in 1..Len(rows) |-> rows[n].content]

(***************************************************************************)
(* C35  A front-matter block that fails to parse is not fatal: the record  *)
(* of a note with such a block has empty metadata whenever it is stored;   *)
(* the errors counted by the pass are the calls that failed and nothing    *)
(* else; and when no call of the pass failed, the pass returns with no     *)
(* error counted and with the note counted as updated, its record holding  *)
(* the checksum of the note and its sections being the paragraphs of the   *)
(* whole text of the note, the unparsed block included.                    *)
(***************************************************************************)
C35_FrontmatterFailureNotFatal ==
    \A p \in Paths :
        (vault[p] # Absent /\ ParseFails(vault[p])) =>
            /\ \A d \in document : d.path = p => d.meta = <<>>
            /\ pc # "idle" => embeddingResult.errorCount = nfail
            /\ (pc = "returned" /\ nfail = 0) =>
                /\ embeddingResult.errorCount = 0
                /\ embeddingResult.updatedCount = 1
                /\ \E d \in document :
                    /\ d.path = p
                    /\ d.checksum # NULL
                    /\ d.checksum = Checksum(vault[p])
                    /\ StoredSections(d.id) = splitIntoParagraphs(vault[p])

\* the pass over the note whose front matter is not YAML has returned without
\* a failed call, and the note's record and sections are stored
C35_Witness ==
    /\ pc = "returned"
    /\ nfail = 0
    /\ ParseFails(vault[PathA])
    /\ \E d \in document : d.path = PathA /\ d.checksum # NULL /\ d.meta = <<>>
    /\ document_section # <<>>

(***************************************************************************)
(* C36  Listener cleanup: while no search modal is open, no keydown        *)
(* listener that a modal registered on the document is registered; while   *)
(* a modal is open, at most one keydown listener of the modals is.         *)
(***************************************************************************)
C36_ListenerCleanup ==
    /\ ~modal.isOpen => dom.keydown = <<>>
    /\ modal.isOpen => Len(dom.keydown) <= 1

\* the animations that run on the answer element of the open modal
LiveOnAnswer == {t \in dom.live : t.el = modal.instance}

(***************************************************************************)
(* C37  Ask requests do not race: when an ask was issued while an earlier  *)
(* one was awaiting its answer and no ask is awaiting its answer any more, *)
(* at most one animation runs on the answer element of the open modal, it  *)
(* is the one of the ask issued last, and the element shows the answer to  *)
(* that ask or, when that ask failed, that it is thinking.                 *)
(***************************************************************************)
C37_AsksDoNotRace ==
    (modal.class = MagicSearchModal /\ modal.isOpen /\ modal.raced /\ pending = {}) =>
        /\ Cardinality(LiveOnAnswer) <= 1
        /\ \A t \in LiveOnAnswer : t.n = modal.asks
        /\ dom.answer \in {<<"Thinking...">>, <<"answer", modal.asks>>}

====
